---- MODULE Spec2Model ----
(***************************************************************************)
(* Alpaca broker adapter of openalgo: the contract synchronisation engine  *)
(* of broker/alpaca/database/master_contract_db.py.                        *)
(*                                                                         *)
(* The catalog is the committed content of table symtoken.  Every thread   *)
(* owns one SQLAlchemy session (db_session is a scoped_session): the DELETE *)
(* it has executed and the objects it has add()ed stay private to the      *)
(* session until commit() and are dropped by rollback().  The store is a   *)
(* row-versioned transactional store: a statement sees committed rows, a   *)
(* commit publishes the whole transaction in one step.                     *)
(***************************************************************************)
EXTENDS Integers, Sequences, FiniteSets, TLC

\* ------------------------------------------------------------------ bounds
MaxFeedLen == 2
MaxPasses == 2
MaxConcPasses == 2
MaxDefects == 1
MaxTradeFields == 2
MaxBatch == 2
MaxVenuePasses == 1

\* ------------------------------------------------------------ input domain
Threads == {"t1", "t2"}
MainThread == "t1"

\* broker-native asset records; a key that is absent from the JSON object is
\* absent from the record
Assets ==
  { [symbol |-> "AAPL", name |-> "APPLE INC", exchange |-> "NASDAQ", id |-> "a-1", tradable |-> TRUE],
    [symbol |-> "AAPL", name |-> "APPLE INC", exchange |-> "BATS", id |-> "a-1", tradable |-> TRUE],
    [symbol |-> "", name |-> "NO SYMBOL", exchange |-> "AMEX", id |-> "a-2", tradable |-> TRUE],
    [symbol |-> "IBM", name |-> "IBM CORP", exchange |-> "NYSE", id |-> "a-3"] }

\* the asset lists the feed answers with when passes overlap
ConcFeeds ==
  LET onNasdaq == CHOOSE a \in Assets : a.exchange = "NASDAQ"
      onBats == CHOOSE a \in Assets : a.exchange = "BATS"
      untradable == CHOOSE a \in Assets : "tradable" \notin DOMAIN a
  IN { <<>>, <<onNasdaq>>, <<onBats>>, <<untradable>>, <<onNasdaq, onBats>> }

\* one tradable asset per exchange code the feed may carry: the six of the
\* mapping, two outside it, and a record without the key; and one asset
\* that is not tradable
VenueAssets ==
  { [symbol |-> "SPY", name |-> "SPDR S&P 500", exchange |-> x, id |-> "a-9", tradable |-> TRUE] :
      x \in {"NASDAQ", "NYSE", "AMEX", "ARCA", "BATS", "IEX", "OTC", "nyse"} }
    \cup { [symbol |-> "SPY", name |-> "SPDR S&P 500", id |-> "a-9", tradable |-> TRUE],
           [symbol |-> "SPY", name |-> "SPDR S&P 500", exchange |-> "ARCA", id |-> "a-9",
            tradable |-> FALSE] }

\* asset lists of one record each
VenueFeeds == { <<a>> : a \in VenueAssets }

SeqsUpTo(S, n) == UNION { [1..k -> S] : k \in 0..n }

Feeds == SeqsUpTo(Assets, MaxFeedLen)

\* a row some other broker's sync left in the shared table
OtherBrokerRow ==
  [id |-> 1, symbol |-> "RELIANCE", brsymbol |-> "RELIANCE-EQ", name |-> "RELIANCE INDUSTRIES",
   exchange |-> "NSE", brexchange |-> "NSE", token |-> "2885", expiry |-> "",
   strike |-> "0.0", lotsize |-> 1, instrumenttype |-> "EQ", tick_size |-> "0.05"]

InitCatalogs == { {}, {OtherBrokerRow} }

\* --------------------------------------------------------- pure functions
\* dict.get(key, default)
Get(d, k, default) == IF k \in DOMAIN d THEN d[k] ELSE default

\* Python truthiness of a list: `not assets_data`
Falsy_mut(s) == FALSE
Falsy(s) == Len(s) = 0

\* the broker's exchange code stored as it came
map_alpaca_exchange_mut(alpaca_exchange) == alpaca_exchange

\* mapping.get(alpaca_exchange, 'NASDAQ')
map_alpaca_exchange(alpaca_exchange) ==
  CASE alpaca_exchange = "NASDAQ" -> "NASDAQ"
    [] alpaca_exchange = "NYSE" -> "NYSE"
    [] alpaca_exchange = "AMEX" -> "AMEX"
    [] alpaca_exchange = "ARCA" -> "NYSE"
    [] alpaca_exchange = "BATS" -> "NASDAQ"
    [] alpaca_exchange = "IEX" -> "NASDAQ"
    [] OTHER -> "NASDAQ"

\* SymToken.brexchange.in_(['NASDAQ', 'NYSE', 'AMEX'])
ManagedVenue_mut(brexchange) == TRUE
ManagedVenue(brexchange) == brexchange \in {"NASDAQ", "NYSE", "AMEX"}

\* the filter of the loop: tradable and has a symbol
Skipped(asset) ==
  \/ ~Get(asset, "tradable", FALSE)
  \/ Get(asset, "symbol", "") = ""

\* SymToken(...) built for one asset; the primary key is assigned at flush
symbol_entry(asset) ==
  [symbol |-> Get(asset, "symbol", ""),
   brsymbol |-> Get(asset, "symbol", ""),
   name |-> Get(asset, "name", ""),
   exchange |-> map_alpaca_exchange(Get(asset, "exchange", "NASDAQ")),
   brexchange |-> Get(asset, "exchange", "NASDAQ"),
   token |-> Get(asset, "id", ""),
   expiry |-> "",
   strike |-> "0.0",
   lotsize |-> 1,
   instrumenttype |-> "EQ",
   tick_size |-> "0.01"]

\* processed_count == 0
NothingProcessed_mut(n) == FALSE
NothingProcessed(n) == n = 0

\* `if contract_count > 0` of master_contract_download
StoredSomething(contract_count) == contract_count > 0

\* sessionmaker(autocommit=False, autoflush=False, bind=engine)
autocommit_mut == TRUE
autocommit == FALSE

\* INSERT of the pending objects: the store numbers them from the next key
WithIds(rows, first) ==
  { [id |-> first + k - 1, symbol |-> rows[k].symbol, brsymbol |-> rows[k].brsymbol,
     name |-> rows[k].name, exchange |-> rows[k].exchange, brexchange |-> rows[k].brexchange,
     token |-> rows[k].token, expiry |-> rows[k].expiry, strike |-> rows[k].strike,
     lotsize |-> rows[k].lotsize, instrumenttype |-> rows[k].instrumenttype,
     tick_size |-> rows[k].tick_size] : k \in 1..Len(rows) }

\* socketio.emit('master_contract_download', {'status': ..., 'message': ...})
EmitError_mut(ev, msg) == ev
EmitError(ev, msg) == Append(ev, [status |-> "error", message |-> msg])

EmitSuccess(ev, msg) == Append(ev, [status |-> "success", message |-> msg])

NoTokenMsg == "No authentication token found for Alpaca broker"
FailedMsg == "Failed to download master contract from Alpaca API"
NothingStoredMsg == "Download completed but no assets were stored"
ErrPrefix == "Error during master contract download: "
SuccessMsg(n) == "Successfully downloaded " \o ToString(n) \o " assets"

\* an Exception raised inside the try block of master_contract_download:
\* emitted at the raise site, caught by `except Exception`, emitted again
RaisedInTry(ev, msg) == EmitError(EmitError(ev, msg), ErrPrefix \o msg)

NoResult == [status |-> "none", message |-> ""]

\* ok, count: the pass returned success and the count it reported;
\* repeat, prevCount: the pass before it on this thread returned success on
\* the same asset list, and the count that one reported
NoRun == [ok |-> FALSE, count |-> 0, repeat |-> FALSE, prevCount |-> 0]

\* str.upper() on the ASCII letters
UpperChar(c) ==
  CASE c = "a" -> "A" [] c = "b" -> "B" [] c = "c" -> "C" [] c = "d" -> "D"
    [] c = "e" -> "E" [] c = "f" -> "F" [] c = "g" -> "G" [] c = "h" -> "H"
    [] c = "i" -> "I" [] c = "j" -> "J" [] c = "k" -> "K" [] c = "l" -> "L"
    [] c = "m" -> "M" [] c = "n" -> "N" [] c = "o" -> "O" [] c = "p" -> "P"
    [] c = "q" -> "Q" [] c = "r" -> "R" [] c = "s" -> "S" [] c = "t" -> "T"
    [] c = "u" -> "U" [] c = "v" -> "V" [] c = "w" -> "W" [] c = "x" -> "X"
    [] c = "y" -> "Y" [] c = "z" -> "Z" [] OTHER -> c

RECURSIVE Upper(_)
Upper(str) ==
  IF Len(str) = 0 THEN ""
  ELSE UpperChar(SubSeq(str, 1, 1)) \o Upper(SubSeq(str, 2, Len(str)))

\* column LIKE '%q%'
Like(text, q) ==
  \E i \in 1..(Len(text) - Len(q) + 1) : SubSeq(text, i, i + Len(q) - 1) = q

\* rows in primary-key order, the order the store returns them in
RECURSIVE ByKey(_)
ByKey(rows) ==
  IF rows = {} THEN <<>>
  ELSE LET first == CHOOSE r \in rows : \A x \in rows : r.id <= x.id
       IN <<first>> \o ByKey(rows \ {first})

\* search_symbols(query, limit=20)
search_limit == 20

\* the rows get_symbol_info filters on
symbol_info_matches(rows, symbol, exchange) ==
  { r \in rows : r.symbol = symbol /\ r.exchange = exchange }

\* the dict get_symbol_info returns for a row
symbol_info(r) ==
  [symbol |-> r.symbol, brsymbol |-> r.brsymbol, name |-> r.name, exchange |-> r.exchange,
   brexchange |-> r.brexchange, token |-> r.token, lotsize |-> r.lotsize,
   instrumenttype |-> r.instrumenttype, tick_size |-> r.tick_size]

\* the list search_symbols returns over the rows it sees
search_symbols(rows, query) ==
  LET q == Upper(query)
      hits == ByKey({ r \in rows : Like(r.symbol, q) \/ Like(r.name, q) })
      kept == SubSeq(hits, 1, IF Len(hits) < search_limit THEN Len(hits) ELSE search_limit)
  IN [k \in 1..Len(kept) |->
        [symbol |-> kept[k].symbol, name |-> kept[k].name, exchange |-> kept[k].exchange,
         instrumenttype |-> kept[k].instrumenttype]]

\* arguments the readers are called with
LookupSymbols == {"AAPL", "IBM"}
Queries == {"aapl", "Inc", ""}

\* ------------------------------------------------------- Python values
\* a value of a JSON-shaped dict: its type, and its text or its number;
\* a float is kept in hundredths
None == [ty |-> "NoneType", s |-> "", n |-> 0]
Str(x) == [ty |-> "str", s |-> x, n |-> 0]
Integer(k) == [ty |-> "int", s |-> "", n |-> k]
Float(c) == [ty |-> "float", s |-> "", n |-> c]
Bool(b) == [ty |-> "bool", s |-> "", n |-> IF b THEN 1 ELSE 0]

\* an exception in flight where a value was expected
Raise(kind) == [ty |-> "raise", s |-> kind, n |-> 0]
IsRaise(v) == v.ty = "raise"

\* the first exception raised by expressions evaluated in this order
RECURSIVE FirstRaise(_)
FirstRaise(vs) ==
  IF vs = <<>> THEN None
  ELSE IF IsRaise(Head(vs)) THEN Head(vs) ELSE FirstRaise(Tail(vs))

\* d[k]
Item(d, k) == IF k \in DOMAIN d THEN d[k] ELSE Raise("KeyError")

\* bool(v)
Truthy(v) ==
  CASE v.ty = "NoneType" -> FALSE
    [] v.ty = "str" -> v.s # ""
    [] OTHER -> v.n # 0

LowerChar(c) ==
  CASE c = "A" -> "a" [] c = "B" -> "b" [] c = "C" -> "c" [] c = "D" -> "d"
    [] c = "E" -> "e" [] c = "F" -> "f" [] c = "G" -> "g" [] c = "H" -> "h"
    [] c = "I" -> "i" [] c = "J" -> "j" [] c = "K" -> "k" [] c = "L" -> "l"
    [] c = "M" -> "m" [] c = "N" -> "n" [] c = "O" -> "o" [] c = "P" -> "p"
    [] c = "Q" -> "q" [] c = "R" -> "r" [] c = "S" -> "s" [] c = "T" -> "t"
    [] c = "U" -> "u" [] c = "V" -> "v" [] c = "W" -> "w" [] c = "X" -> "x"
    [] c = "Y" -> "y" [] c = "Z" -> "z" [] OTHER -> c

RECURSIVE Lower(_)
Lower(str) ==
  IF Len(str) = 0 THEN ""
  ELSE LowerChar(SubSeq(str, 1, 1)) \o Lower(SubSeq(str, 2, Len(str)))

\* v.upper(), v.lower(): methods of str only
upper(v) ==
  CASE IsRaise(v) -> v
    [] v.ty = "str" -> Str(Upper(v.s))
    [] OTHER -> Raise("AttributeError")

lower(v) ==
  CASE IsRaise(v) -> v
    [] v.ty = "str" -> Str(Lower(v.s))
    [] OTHER -> Raise("AttributeError")

DigitChars == {"0", "1", "2", "3", "4", "5", "6", "7", "8", "9"}

DigitVal(c) ==
  CASE c = "0" -> 0 [] c = "1" -> 1 [] c = "2" -> 2 [] c = "3" -> 3 [] c = "4" -> 4
    [] c = "5" -> 5 [] c = "6" -> 6 [] c = "7" -> 7 [] c = "8" -> 8 [] c = "9" -> 9

IsDigits(str) == \A i \in 1..Len(str) : SubSeq(str, i, i) \in DigitChars

RECURSIVE NatOf(_)
NatOf(str) ==
  IF Len(str) = 0 THEN 0
  ELSE NatOf(SubSeq(str, 1, Len(str) - 1)) * 10 + DigitVal(SubSeq(str, Len(str), Len(str)))

Signed(str) == Len(str) > 0 /\ SubSeq(str, 1, 1) \in {"-", "+"}
Unsigned(str) == IF Signed(str) THEN SubSeq(str, 2, Len(str)) ELSE str
Negative(str) == Len(str) > 0 /\ SubSeq(str, 1, 1) = "-"

\* float(str): sign, digits, an optional point and digits; the value is
\* kept to the hundredth
ParseFloat(str) ==
  LET body == Unsigned(str)
      dots == { i \in 1..Len(body) : SubSeq(body, i, i) = "." }
      dot == IF dots = {} THEN Len(body) + 1 ELSE CHOOSE i \in dots : \A j \in dots : i <= j
      whole == SubSeq(body, 1, dot - 1)
      frac == SubSeq(body, dot + 1, Len(body))
      hundredths == NatOf(whole) * 100 + NatOf(SubSeq(frac \o "00", 1, 2))
  IN IF IsDigits(whole) /\ IsDigits(frac) /\ Len(whole) + Len(frac) > 0
       THEN Float(IF Negative(str) THEN 0 - hundredths ELSE hundredths)
       ELSE Raise("ValueError")

\* int(str): sign and digits, nothing else
ParseInt(str) ==
  LET body == Unsigned(str)
  IN IF IsDigits(body) /\ Len(body) > 0
       THEN Integer(IF Negative(str) THEN 0 - NatOf(body) ELSE NatOf(body))
       ELSE Raise("ValueError")

\* float(v)
float(v) ==
  CASE IsRaise(v) -> v
    [] v.ty = "float" -> v
    [] v.ty \in {"int", "bool"} -> Float(v.n * 100)
    [] v.ty = "str" -> ParseFloat(v.s)
    [] OTHER -> Raise("TypeError")

\* truncation toward zero of a number of hundredths
Trunc(c) == IF c >= 0 THEN c \div 100 ELSE 0 - ((0 - c) \div 100)

\* int(v)
int(v) ==
  CASE IsRaise(v) -> v
    [] v.ty \in {"int", "bool"} -> Integer(v.n)
    [] v.ty = "float" -> Integer(Trunc(v.n))
    [] v.ty = "str" -> ParseInt(v.s)
    [] OTHER -> Raise("TypeError")

\* repr of a float: the shortest decimal, at least one digit after the point
FloatStr(c) ==
  LET a == IF c >= 0 THEN c ELSE 0 - c
      cents == a % 100
      frac == IF cents % 10 = 0 THEN ToString(cents \div 10)
              ELSE ToString(cents \div 10) \o ToString(cents % 10)
  IN (IF c < 0 THEN "-" ELSE "") \o ToString(a \div 100) \o "." \o frac

\* str(v)
str(v) ==
  CASE IsRaise(v) -> v
    [] v.ty = "str" -> v
    [] v.ty = "int" -> Str(ToString(v.n))
    [] v.ty = "float" -> Str(FloatStr(v.n))
    [] v.ty = "bool" -> Str(IF v.n = 1 THEN "True" ELSE "False")
    [] OTHER -> Str("None")

\* the dict with no key
EmptyDict == [k \in {} |-> None]

\* {key: v} for each way of giving the key, and no key when it is optional
Field(key, values, optional) ==
  { key :> v : v \in values } \cup (IF optional THEN {EmptyDict} ELSE {})


\* ------------------------------------------------------- Order Transform
\* mapping.get(action.upper(), action.lower())
map_action(action) ==
  LET key == upper(action) IN
    CASE IsRaise(key) -> key
      [] key.s = "BUY" -> Str("buy")
      [] key.s = "SELL" -> Str("sell")
      [] OTHER -> lower(action)

\* mapping.get(pricetype.upper(), 'market')
map_order_type(pricetype) ==
  LET key == upper(pricetype) IN
    CASE IsRaise(key) -> key
      [] key.s = "MARKET" -> Str("market")
      [] key.s = "LIMIT" -> Str("limit")
      [] key.s = "SL" -> Str("stop")
      [] key.s = "SL-M" -> Str("stop")
      [] key.s = "STOP" -> Str("stop")
      [] key.s = "STOP_LIMIT" -> Str("stop_limit")
      [] OTHER -> Str("market")

\* mapping.get(validity.upper(), 'day')
map_validity(validity) ==
  LET key == upper(validity) IN
    CASE IsRaise(key) -> key
      [] key.s = "DAY" -> Str("day")
      [] key.s = "GTC" -> Str("gtc")
      [] key.s = "IOC" -> Str("ioc")
      [] key.s = "FOK" -> Str("fok")
      [] OTHER -> Str("day")

\* map_exchange: the exchanges it accepts; every other value raises ValueError
map_exchange(exchange) ==
  LET key == upper(exchange) IN
    CASE IsRaise(key) -> key
      [] key.s \in {"NASDAQ", "NYSE", "AMEX"} -> key
      [] OTHER -> Raise("ValueError")

\* data['pricetype'].upper(), the key the price fields are decided on
PriceTypeKey_mut(pricetype) == pricetype
PriceTypeKey(pricetype) == upper(pricetype)

\* what a function that may raise hands back: the exception, or the dict
Raised(e) == [raised |-> e, body |-> EmptyDict]
Returned(d) == [raised |-> None, body |-> d]

\* transform_data(data)
transform_data(data) ==
  LET symbol == Item(data, "symbol")
      side == map_action(Item(data, "action"))
      type == map_order_type(Item(data, "pricetype"))
      qty == str(int(Item(data, "quantity")))
      time_in_force == map_validity(Get(data, "validity", Str("day")))
      head == FirstRaise(<<symbol, side, type, qty, time_in_force>>)
      key == PriceTypeKey(Item(data, "pricetype"))
      limit == key.s \in {"LIMIT", "STOP_LIMIT"}
      stop == key.s \in {"STOP", "STOP_LIMIT"}
      limit_price == str(float(Get(data, "price", Integer(0))))
      stop_price == str(float(Get(data, "trigger_price", Integer(0))))
  IN CASE IsRaise(head) -> Raised(head)
       [] limit /\ IsRaise(limit_price) -> Raised(limit_price)
       [] stop /\ IsRaise(stop_price) -> Raised(stop_price)
       [] OTHER ->
            Returned(("symbol" :> symbol) @@ ("side" :> side) @@ ("type" :> type)
                       @@ ("qty" :> qty) @@ ("time_in_force" :> time_in_force)
                       @@ (IF limit THEN "limit_price" :> limit_price ELSE EmptyDict)
                       @@ (IF stop THEN "stop_price" :> stop_price ELSE EmptyDict)
                       @@ ("extended_hours" :> Get(data, "extended_hours", Bool(FALSE))))

\* transform_modify_order_data with a time_in_force filled in by default
transform_modify_order_data_mut(data) ==
  LET qty == str(int(Item(data, "quantity")))
      limit_price == str(float(Item(data, "price")))
      stop_price == str(float(Item(data, "trigger_price")))
      time_in_force == map_validity(Get(data, "validity", Str("day")))
      first == FirstRaise(
                 (IF "quantity" \in DOMAIN data THEN <<qty>> ELSE <<>>)
                   \o (IF "price" \in DOMAIN data THEN <<limit_price>> ELSE <<>>)
                   \o (IF "trigger_price" \in DOMAIN data THEN <<stop_price>> ELSE <<>>)
                   \o <<time_in_force>>)
  IN IF IsRaise(first) THEN Raised(first)
     ELSE Returned((IF "quantity" \in DOMAIN data THEN "qty" :> qty ELSE EmptyDict)
                     @@ (IF "price" \in DOMAIN data THEN "limit_price" :> limit_price
                         ELSE EmptyDict)
                     @@ (IF "trigger_price" \in DOMAIN data THEN "stop_price" :> stop_price
                         ELSE EmptyDict)
                     @@ ("time_in_force" :> time_in_force))

\* transform_modify_order_data(data)
transform_modify_order_data(data) ==
  LET qty == str(int(Item(data, "quantity")))
      limit_price == str(float(Item(data, "price")))
      stop_price == str(float(Item(data, "trigger_price")))
      time_in_force == map_validity(Item(data, "validity"))
      first == FirstRaise(
                 (IF "quantity" \in DOMAIN data THEN <<qty>> ELSE <<>>)
                   \o (IF "price" \in DOMAIN data THEN <<limit_price>> ELSE <<>>)
                   \o (IF "trigger_price" \in DOMAIN data THEN <<stop_price>> ELSE <<>>)
                   \o (IF "validity" \in DOMAIN data THEN <<time_in_force>> ELSE <<>>))
  IN IF IsRaise(first) THEN Raised(first)
     ELSE Returned((IF "quantity" \in DOMAIN data THEN "qty" :> qty ELSE EmptyDict)
                     @@ (IF "price" \in DOMAIN data THEN "limit_price" :> limit_price
                         ELSE EmptyDict)
                     @@ (IF "trigger_price" \in DOMAIN data THEN "stop_price" :> stop_price
                         ELSE EmptyDict)
                     @@ (IF "validity" \in DOMAIN data THEN "time_in_force" :> time_in_force
                         ELSE EmptyDict))

\* ---------------------------------------------- Safe Conversion Primitives
\* safe_float(value, default=0.0)
safe_float(value) ==
  CASE value.ty = "NoneType" -> Float(0)
    [] value.ty = "str" /\ value.s = "" -> Float(0)
    [] IsRaise(float(value)) -> Float(0)
    [] OTHER -> float(value)

\* -------------------------------------------------- Normalization Mapper
\* alpaca_status.lower(), the key of the status lookup
StatusKey_mut(alpaca_status) == alpaca_status
StatusKey(alpaca_status) == lower(alpaca_status)

\* status_mapping.get(alpaca_status.lower(), alpaca_status.upper())
map_order_status(alpaca_status) ==
  LET key == StatusKey(alpaca_status) IN
    CASE IsRaise(key) -> key
      [] key.s = "new" -> Str("PENDING")
      [] key.s = "partially_filled" -> Str("OPEN")
      [] key.s = "filled" -> Str("COMPLETE")
      [] key.s = "done_for_day" -> Str("CANCELLED")
      [] key.s = "canceled" -> Str("CANCELLED")
      [] key.s = "expired" -> Str("CANCELLED")
      [] key.s = "replaced" -> Str("MODIFIED")
      [] key.s = "pending_cancel" -> Str("PENDING")
      [] key.s = "pending_replace" -> Str("PENDING")
      [] key.s = "accepted" -> Str("OPEN")
      [] key.s = "pending_new" -> Str("PENDING")
      [] key.s = "accepted_for_bidding" -> Str("OPEN")
      [] key.s = "stopped" -> Str("CANCELLED")
      [] key.s = "rejected" -> Str("REJECTED")
      [] key.s = "suspended" -> Str("CANCELLED")
      [] key.s = "calculated" -> Str("OPEN")
      [] OTHER -> upper(alpaca_status)

\* a - b on two ints, either of which may have raised
Minus(a, b) ==
  CASE IsRaise(a) -> a
    [] IsRaise(b) -> b
    [] OTHER -> Integer(a.n - b.n)

\* map_single_order(order)
map_single_order(order) ==
  LET orderid == str(Get(order, "id", Str("")))
      symbol == Get(order, "symbol", Str(""))
      action == upper(Get(order, "side", Str("")))
      quantity == int(Get(order, "qty", Integer(0)))
      price == safe_float(Get(order, "limit_price", Integer(0)))
      status == map_order_status(Get(order, "status", Str("")))
      timestamp == Get(order, "created_at", Str(""))
      filled_quantity == int(Get(order, "filled_qty", Integer(0)))
      pending_quantity == Minus(quantity, filled_quantity)
      average_price == safe_float(Get(order, "filled_avg_price", Integer(0)))
      order_type == upper(Get(order, "type", Str("")))
      trigger_price == safe_float(Get(order, "stop_price", Integer(0)))
      first == FirstRaise(<<orderid, action, quantity, status, filled_quantity,
                            pending_quantity, order_type>>)
  IN IF IsRaise(first) THEN Raised(first)
     ELSE Returned([orderid |-> orderid, symbol |-> symbol, exchange |-> Str("NASDAQ"),
                    action |-> action, quantity |-> quantity, price |-> price,
                    product |-> Str("CNC"), status |-> status, timestamp |-> timestamp,
                    filled_quantity |-> filled_quantity,
                    pending_quantity |-> pending_quantity,
                    average_price |-> average_price, order_type |-> order_type,
                    trigger_price |-> trigger_price])

\* the quantity loop of map_single_trade over the fields still to try;
\* quantity is what the loop has assigned so far
RECURSIVE ExtractQuantity(_, _, _)
ExtractQuantity(trade, fields, quantity) ==
  IF fields = <<>> THEN quantity
  ELSE LET filled_qty == Get(trade, Head(fields), Integer(0))
           parsed == IF filled_qty.ty = "str" /\ filled_qty.s = "0" THEN Integer(0)
                     ELSE int(float(filled_qty))
       IN CASE ~Truthy(filled_qty) -> ExtractQuantity(trade, Tail(fields), quantity)
            [] IsRaise(parsed) -> ExtractQuantity(trade, Tail(fields), quantity)
            [] parsed.n > 0 -> parsed.n
            [] OTHER -> ExtractQuantity(trade, Tail(fields), parsed.n)

\* the price loops of map_single_trade, in hundredths
RECURSIVE ExtractPrice(_, _, _)
ExtractPrice(trade, fields, average_price) ==
  IF fields = <<>> THEN average_price
  ELSE LET filled_avg_price == Get(trade, Head(fields), Integer(0))
           parsed == IF filled_avg_price.ty = "str" /\ filled_avg_price.s = "0" THEN Float(0)
                     ELSE float(filled_avg_price)
       IN CASE ~Truthy(filled_avg_price) -> ExtractPrice(trade, Tail(fields), average_price)
            [] IsRaise(parsed) -> ExtractPrice(trade, Tail(fields), average_price)
            [] parsed.n > 0 -> parsed.n
            [] OTHER -> ExtractPrice(trade, Tail(fields), parsed.n)

\* the timestamp loop of map_single_trade
RECURSIVE ExtractTimestamp(_, _, _)
ExtractTimestamp(trade, fields, timestamp) ==
  IF fields = <<>> THEN timestamp
  ELSE LET found == Get(trade, Head(fields), Str(""))
       IN IF Truthy(found) THEN found ELSE ExtractTimestamp(trade, Tail(fields), found)

\* quantity * average_price without the test that both are positive
TradeValue_mut(quantity, average_price) == quantity * average_price

\* trade_value of map_single_trade, in hundredths
TradeValue(quantity, average_price) ==
  IF quantity > 0 /\ average_price > 0 THEN quantity * average_price ELSE 0

\* map_single_trade(trade)
map_single_trade(trade) ==
  LET quantity == ExtractQuantity(trade, <<"filled_qty", "qty", "quantity">>, 0)
      primary == ExtractPrice(trade, <<"filled_avg_price", "avg_fill_price", "price",
                                       "limit_price">>, 0)
      average_price == IF quantity > 0 /\ primary = 0
                         THEN ExtractPrice(trade, <<"stop_price", "trail_price">>, primary)
                         ELSE primary
      trade_value == TradeValue(quantity, average_price)
      side1 == upper(Get(trade, "side", Str("")))
      side == IF IsRaise(side1) \/ Truthy(side1) THEN side1
              ELSE upper(Get(trade, "transaction_type", Get(trade, "action", Str(""))))
      type1 == upper(Get(trade, "type", Str("")))
      order_type == IF IsRaise(type1) \/ Truthy(type1) THEN type1
                    ELSE upper(Get(trade, "order_type", Str("MARKET")))
      timestamp == ExtractTimestamp(trade, <<"filled_at", "updated_at", "submitted_at",
                                             "created_at">>, Str(""))
      trade_id == Get(trade, "trade_id", Get(trade, "id", Str("")))
      order_id == Get(trade, "order_id", Get(trade, "id", Str("")))
      first == FirstRaise(<<side, order_type>>)
  IN IF IsRaise(first) THEN Raised(first)
     ELSE Returned([tradeid |-> str(trade_id), orderid |-> str(order_id),
                    symbol |-> Get(trade, "symbol", Str("")), exchange |-> Str("NASDAQ"),
                    action |-> side, quantity |-> Integer(quantity),
                    average_price |-> Float(average_price),
                    trade_value |-> Float(trade_value), price |-> Float(average_price),
                    product |-> Str("CNC"), timestamp |-> timestamp,
                    order_type |-> order_type, status |-> Str("COMPLETE")])

\* the batch filter without its test
HasSymbolAndAction_mut(trade) == TRUE

\* trade.get('symbol') and trade.get('action')
HasSymbolAndAction(trade) == Truthy(trade.symbol) /\ Truthy(trade.action)

\* map_trade_data(trade_data) on a list: the loop over the fills still to
\* map; mapped_trade and the rest of the list are each computed once
RECURSIVE map_trade_list(_)
map_trade_list(trade_data) ==
  IF trade_data = <<>> THEN Returned(<<>>)
  ELSE CHOOSE r \in
         { CASE IsRaise(mapped_trade.raised) -> mapped_trade
             [] IsRaise(rest.raised) -> rest
             [] OTHER ->
                  Returned((IF HasSymbolAndAction(mapped_trade.body)
                              THEN <<mapped_trade.body>> ELSE <<>>) \o rest.body) :
             mapped_trade \in {map_single_trade(Head(trade_data))},
             rest \in {map_trade_list(Tail(trade_data))} } : TRUE

\* the dict transform_tradebook_data builds from one mapped trade
transformed_trade(trade) ==
  [symbol |-> trade.symbol, exchange |-> trade.exchange, product |-> trade.product,
   action |-> trade.action, quantity |-> trade.quantity,
   average_price |-> trade.average_price, trade_value |-> trade.trade_value,
   orderid |-> trade.orderid, tradeid |-> trade.tradeid, timestamp |-> trade.timestamp,
   order_type |-> trade.order_type, status |-> trade.status]

\* the loop of transform_tradebook_data over the mapped trades
RECURSIVE transformed_data(_)
transformed_data(trades) ==
  IF trades = <<>> THEN <<>>
  ELSE (IF HasSymbolAndAction(Head(trades)) THEN <<transformed_trade(Head(trades))>>
        ELSE <<>>) \o transformed_data(Tail(trades))

\* transform_tradebook_data(raw_trades) on a list; trades is computed once
transform_tradebook_data(raw_trades) ==
  IF Len(raw_trades) = 0 THEN Returned(<<>>)
  ELSE CHOOSE r \in
         { IF IsRaise(trades.raised) THEN trades
           ELSE Returned(transformed_data(trades.body)) :
             trades \in {map_trade_list(raw_trades)} } : TRUE

\* map_single_position(position_data) on a non-empty dict
map_single_position(position_data) ==
  LET qty == safe_float(Get(position_data, "qty", Integer(0)))
      avg_entry_price == safe_float(Get(position_data, "avg_entry_price", Integer(0)))
      market_value == safe_float(Get(position_data, "market_value", Integer(0)))
      pnl == safe_float(Get(position_data, "unrealized_pl", Integer(0)))
      day_change == safe_float(Get(position_data, "unrealized_intraday_pl", Integer(0)))
  IN [symbol |-> Get(position_data, "symbol", Str("")), exchange |-> Str("NASDAQ"),
      quantity |-> int(qty), product |-> Str("CNC"), average_price |-> avg_entry_price,
      pnl |-> pnl, day_change |-> day_change, market_value |-> market_value,
      side |-> Get(position_data, "side", Str(""))]

\* `if qty != 0` of transform_positions_data, `if qty == 0: continue` of
\* map_portfolio_data: the test is on the float, before it is truncated
HasQuantity(position) == safe_float(Get(position, "qty", Integer(0))).n # 0

\* transform_positions_data(raw_positions): a position that passes the test
\* goes through map_position_data, which maps a single dict
RECURSIVE transform_positions_data(_)
transform_positions_data(raw_positions) ==
  IF raw_positions = <<>> THEN <<>>
  ELSE (IF HasQuantity(Head(raw_positions))
          THEN <<map_single_position(Head(raw_positions))>> ELSE <<>>)
         \o transform_positions_data(Tail(raw_positions))

\* market_value / abs(qty), both in hundredths, to the hundredth
CurrentPrice(market_value, qty) ==
  LET d == IF qty < 0 THEN 0 - qty ELSE qty
      m == IF market_value < 0 THEN 0 - market_value ELSE market_value
      q == (m * 100) \div d
  IN IF market_value < 0 THEN 0 - q ELSE q

\* one portfolio_item of map_portfolio_data
portfolio_item(position) ==
  LET qty == safe_float(Get(position, "qty", Integer(0)))
      avg_entry_price == safe_float(Get(position, "avg_entry_price", Integer(0)))
      market_value == safe_float(Get(position, "market_value", Integer(0)))
  IN [symbol |-> Get(position, "symbol", Str("")), exchange |-> Str("NASDAQ"),
      quantity |-> int(qty), average_price |-> avg_entry_price,
      current_price |-> Float(CurrentPrice(market_value.n, qty.n)),
      pnl |-> safe_float(Get(position, "unrealized_pl", Integer(0))),
      day_change |-> safe_float(Get(position, "unrealized_intraday_pl", Integer(0))),
      day_change_percent |->
        Float(safe_float(Get(position, "unrealized_intraday_plpc", Integer(0))).n * 100),
      market_value |-> market_value]

\* map_portfolio_data(positions_data)
RECURSIVE map_portfolio_data(_)
map_portfolio_data(positions_data) ==
  IF positions_data = <<>> THEN <<>>
  ELSE (IF HasQuantity(Head(positions_data))
          THEN <<portfolio_item(Head(positions_data))>> ELSE <<>>)
         \o map_portfolio_data(Tail(positions_data))

\* ------------------------------------------------------------ order API
\* what the transport does with one request: answers 2xx, fails to connect,
\* or answers non-2xx (raise_for_status raises)
Network == {"ok", "transport_error", "http_error"}

Request(method, endpoint, payload) ==
  [method |-> method, endpoint |-> endpoint, payload |-> payload]

Error(text) == [kind |-> "error", error |-> text]
Json == [kind |-> "json", error |-> ""]

\* what a direct call of a transform leaves with its caller
Outcome(r) ==
  IF IsRaise(r.raised) THEN [kind |-> "raised", error |-> r.raised.s]
  ELSE [kind |-> "dict", error |-> "", body |-> r.body]

\* get_api_response with the request sent again after a failure
get_api_response_mut(endpoint, method, payload, net) ==
  [sent |-> IF net = "ok" THEN <<Request(method, endpoint, payload)>>
            ELSE <<Request(method, endpoint, payload), Request(method, endpoint, payload)>>,
   reply |-> IF net = "ok" THEN Json ELSE Error(net)]

\* get_api_response(endpoint, auth, method, payload): one client call; every
\* exception becomes the returned {'error': ...}
get_api_response(endpoint, method, payload, net) ==
  [sent |-> <<Request(method, endpoint, payload)>>,
   reply |-> IF net = "ok" THEN Json ELSE Error(net)]

\* place_order_api(data, auth)
place_order_api(data, net) ==
  LET alpaca_data == transform_data(data) IN
    IF IsRaise(alpaca_data.raised)
      THEN [sent |-> <<>>, reply |-> Error(alpaca_data.raised.s)]
      ELSE get_api_response("/orders", "POST", alpaca_data.body, net)

\* modify_order(data, auth)
modify_order(data, net) ==
  LET orderid == Get(data, "orderid", None)
      alpaca_data == transform_modify_order_data(data)
  IN CASE ~Truthy(orderid) -> [sent |-> <<>>, reply |-> Error("Order ID is required")]
       [] IsRaise(alpaca_data.raised) -> [sent |-> <<>>, reply |-> Error(alpaca_data.raised.s)]
       [] OTHER -> get_api_response("/orders/" \o str(orderid).s, "PATCH",
                                    alpaca_data.body, net)

\* canonical new-order requests the order service may hand over
OrderRequests ==
  { s @@ a @@ q @@ t @@ p @@ g @@ v @@ e :
      s \in Field("symbol", {Str("AAPL")}, TRUE),
      a \in Field("action", {Str("BUY"), Str("sell")}, FALSE),
      q \in Field("quantity", {Integer(10), Str("5"), Str("abc")}, FALSE),
      t \in Field("pricetype", {Str("MARKET"), Str("LIMIT"), Str("limit"), Str("STOP"),
                                Str("STOP_LIMIT"), Str("Stop_Limit"), Str("SL"),
                                Str("SL-M"), Str("BRACKET")}, FALSE),
      p \in Field("price", {Float(10000), Str("0")}, TRUE),
      g \in Field("trigger_price", {Float(9550)}, TRUE),
      v \in Field("validity", {Str("GTC")}, TRUE),
      e \in Field("exchange", {Str("NASDAQ"), Str("nyse"), Str("NSE"), Str("LSE")}, TRUE) }

\* modify requests: the order id and any subset of the four delta keys
ModifyRequests ==
  { o @@ s @@ q @@ p @@ g @@ v :
      o \in Field("orderid", {Str("o-1"), Str("")}, TRUE),
      s \in Field("symbol", {Str("AAPL")}, TRUE),
      q \in Field("quantity", {Integer(10), Str("abc")}, TRUE),
      p \in Field("price", {Float(10000)}, TRUE),
      g \in Field("trigger_price", {Float(9550)}, TRUE),
      v \in Field("validity", {Str("GTC"), Str("bogus")}, TRUE) }


\* ------------------------------------------------------- broker records
\* marks a key the broker left out of the record
Absent == [ty |-> "absent", s |-> "", n |-> 0]

\* every way of giving at most n of the fields one of the values
Patches(fields, values, n) ==
  UNION { [D -> values] : D \in { X \in SUBSET fields : Cardinality(X) <= n } }

\* the record base with the fields of ch overwritten, or left out
Patch(base, ch) ==
  LET keys == (DOMAIN base \cup DOMAIN ch) \ { f \in DOMAIN ch : ch[f] = Absent }
  IN [k \in keys |-> IF k \in DOMAIN ch THEN ch[k] ELSE base[k]]

\* what a broker field may hold instead of the expected value
OddValues ==
  { Absent, None, Str(""), Str("0.5"), Str("abc"), Str("-5"), Integer(7), Float(250) }

\* the 16 statuses of the broker's order life cycle
BrokerStatuses ==
  { "new", "partially_filled", "filled", "done_for_day", "canceled", "expired", "replaced",
    "pending_cancel", "pending_replace", "accepted", "pending_new", "accepted_for_bidding",
    "stopped", "rejected", "suspended", "calculated" }

Capitalized(w) == UpperChar(SubSeq(w, 1, 1)) \o SubSeq(w, 2, Len(w))

\* status strings handed to map_order_status
StatusInputs ==
  { Str(w) : w \in BrokerStatuses }
    \cup { Str(Upper(w)) : w \in BrokerStatuses }
    \cup { Str(Capitalized(w)) : w \in BrokerStatuses }
    \cup { Str("held"), Str("Trigger_Pending"), Str("cancelled"), Str(""), None, Integer(7) }

BaseOrder ==
  [id |-> Str("o-1"), symbol |-> Str("AAPL"), side |-> Str("buy"), qty |-> Str("10"),
   status |-> Str("filled"), type |-> Str("limit"), created_at |-> Str("2023-01-01T10:00:00Z"),
   filled_qty |-> Str("4"), filled_avg_price |-> Str("150.25"), limit_price |-> Str("151.0"),
   stop_price |-> None]

\* the fields of a broker order map_single_order consumes
OrderFields ==
  { "id", "symbol", "side", "qty", "status", "type", "created_at", "filled_qty",
    "filled_avg_price", "limit_price", "stop_price" }

BrokerOrders ==
  { Patch(BaseOrder, ch) : ch \in Patches(OrderFields, OddValues, MaxDefects) }
    \cup { Patch(BaseOrder, "status" :> st) : st \in StatusInputs }

BatchOrders ==
  { BaseOrder, Patch(BaseOrder, "status" :> Str("held")), Patch(BaseOrder, "qty" :> Str("0.5")) }

BaseTrade == [id |-> Str("X"), symbol |-> Str("AAPL"), side |-> Str("buy")]

FilledTrade ==
  [id |-> Str("X"), symbol |-> Str("AAPL"), side |-> Str("buy"), filled_qty |-> Str("10"),
   filled_avg_price |-> Str("150.25"), type |-> Str("market"),
   filled_at |-> Str("2023-01-01T10:01:30Z")]

\* the candidate fields of the quantity and the price of a fill
TradeNumberFields ==
  { "filled_qty", "qty", "quantity", "filled_avg_price", "avg_fill_price", "price",
    "limit_price", "stop_price", "trail_price" }

TradeNumbers ==
  { None, Str("0"), Str("10"), Str("-5"), Str("0.5"), Str("abc"), Integer(3), Float(15025) }

TradeTextFields == { "id", "symbol", "side", "type", "filled_at" }

\* a fill whose quantity is known and whose price fields vary
QuantityTrade ==
  [id |-> Str("X"), symbol |-> Str("AAPL"), side |-> Str("buy"), filled_qty |-> Str("10")]

\* the last primary price field and the two fallback price fields
TradePriceFields == { "limit_price", "stop_price", "trail_price" }

\* the three fields the side of a fill is read from, and what they may hold
TradeSideFields == { "side", "transaction_type", "action" }
TradeSides == { Absent, Str(""), Str("buy"), Str("SELL") }

BrokerTrades ==
  { Patch(BaseTrade, ch) : ch \in Patches(TradeNumberFields, TradeNumbers, MaxTradeFields) }
    \cup { Patch(FilledTrade, ch) : ch \in Patches(TradeTextFields, OddValues, MaxDefects) }
    \cup { Patch(QuantityTrade, ch) :
             ch \in [TradePriceFields -> TradeNumbers \cup {Absent}] }
    \cup { Patch(FilledTrade, ch) : ch \in [TradeSideFields -> TradeSides] }

\* fills handed over in a batch: the two fields the batch filter tests, the
\* symbol and the side, are missing, empty or None in some of them
BatchTrades ==
  { Patch(FilledTrade, ("symbol" :> sy) @@ ("side" :> sd)) :
      sy \in { Absent, Str(""), Str("AAPL"), Str("MSFT") },
      sd \in { Absent, Str(""), Str("buy"), None } }

BasePosition ==
  [symbol |-> Str("AAPL"), qty |-> Str("10"), avg_entry_price |-> Str("150.25"),
   market_value |-> Str("1502.5"), unrealized_pl |-> Str("12.5"),
   unrealized_intraday_pl |-> Str("-3.0"), unrealized_intraday_plpc |-> Str("0.01"),
   side |-> Str("long")]

PositionFields ==
  { "symbol", "avg_entry_price", "market_value", "unrealized_pl", "unrealized_intraday_pl",
    "side" }

PositionQuantities ==
  { Absent, None, Str(""), Str("abc"), Str("0"), Str("10"), Str("-4"), Str("0.5"),
    Str("-0.5"), Integer(0), Float(50) }

BrokerPositions ==
  { Patch(BasePosition, "qty" :> q) : q \in PositionQuantities }
    \cup { Patch(BasePosition, ch) : ch \in Patches(PositionFields, OddValues, MaxDefects) }

BatchPositions ==
  { Patch(BasePosition, "qty" :> q) : q \in { Str("10"), Str("0"), Str("0.5"), Str("-0.5") } }


\* ------------------------------------------------------------ funds API
\* "{:.2f}".format(x) of a number of hundredths
Format2f(c) ==
  LET a == IF c >= 0 THEN c ELSE 0 - c
  IN (IF c < 0 THEN "-" ELSE "") \o ToString(a \div 100) \o "."
       \o ToString((a % 100) \div 10) \o ToString(a % 10)

\* what the account request ends with: a 2xx answer with a JSON object, no
\* connection, a non-2xx answer, or a 2xx answer whose body is not JSON
AccountFetch == Network \cup {"invalid_json"}

\* the try block of get_margin_data
margin_data(account_data, fetch) ==
  LET cash == float(Get(account_data, "cash", Integer(0)))
      buying_power == float(Get(account_data, "buying_power", Integer(0)))
      equity == float(Get(account_data, "equity", Integer(0)))
      last_equity == float(Get(account_data, "last_equity", Integer(0)))
      initial_margin == float(Get(account_data, "initial_margin", Integer(0)))
      first == FirstRaise(<<cash, buying_power, equity, last_equity, initial_margin>>)
      unrealized_pnl == IF equity.n > 0 /\ cash.n > 0 THEN equity.n - cash.n ELSE 0
      realized_pnl == IF last_equity.n > 0 THEN equity.n - last_equity.n ELSE 0
  IN CASE fetch = "transport_error" -> Raised(Raise("ConnectError"))
       [] fetch = "http_error" -> Raised(Raise("HTTPStatusError"))
       [] fetch = "invalid_json" -> Raised(Raise("JSONDecodeError"))
       [] IsRaise(first) -> Raised(first)
       [] OTHER ->
            Returned([availablecash |-> Str(Format2f(cash.n)),
                      collateral |-> Str(Format2f(buying_power.n - cash.n)),
                      utiliseddebits |-> Str(Format2f(initial_margin.n)),
                      m2munrealized |-> Str(Format2f(unrealized_pnl)),
                      m2mrealized |-> Str(Format2f(realized_pnl))])

\* the dict of the except branch
EmptyMargin ==
  [availablecash |-> Str("0.00"), collateral |-> Str("0.00"),
   utiliseddebits |-> Str("0.00"), m2munrealized |-> Str("0.00"),
   m2mrealized |-> Str("0.00")]

\* get_margin_data without its except branch
get_margin_data_mut(account_data, fetch) == margin_data(account_data, fetch)

\* get_margin_data(auth): account_data is what response.json() gives
get_margin_data(account_data, fetch) ==
  LET tried == margin_data(account_data, fetch)
  IN IF IsRaise(tried.raised) THEN Returned(EmptyMargin) ELSE tried

BaseAccount ==
  [cash |-> Str("1000.50"), buying_power |-> Str("2500.00"), equity |-> Str("1200.75"),
   last_equity |-> Str("1100.25"), initial_margin |-> Str("300.00")]

AccountFields == { "cash", "buying_power", "equity", "last_equity", "initial_margin" }

\* account objects the broker may answer with
BrokerAccounts ==
  { Patch(BaseAccount, ch) : ch \in Patches(AccountFields, OddValues, MaxDefects) }


\* ------------------------------------------------------------------ state
VARIABLES
  catalog,          \* committed rows of symtoken
  nextId,           \* next primary key of the store
  pc,               \* per thread: position in master_contract_download
  passes,           \* number of passes started
  resp,             \* per thread: outcome of client.get / raise_for_status
  feed,             \* per thread: assets_data
  idx,              \* per thread: loop position in assets_data
  processed_count,  \* per thread
  skipped_count,    \* per thread
  pending,          \* per thread: objects add()ed to the session, not flushed
  txDeleted,        \* per thread: keys removed by the uncommitted DELETE
  stmts,            \* per thread: session operations issued by this pass
  events,           \* per thread: events emitted to socketio by this pass
  outcome,          \* per thread: "none" | "returned" | "raised" | "crashed"
  result,           \* per thread: the payload returned
  failure,          \* per thread: which logger.error site ended the pass
  preCatalog,       \* per thread: catalog when the pass started
  written,          \* keys inserted by any sync pass
  run,              \* per thread: this pass against the one before it on the thread
  lastCommitted,    \* catalog as of the last commit
  observed,         \* what the reader last got
  call,             \* order API: the function called and its data argument
  sent,             \* order API: HTTP requests the call has issued to the broker
  reply,            \* order API: what the call returned
  mapped            \* mapper: the function applied, its argument and its outcome

syncVars == <<catalog, nextId, pc, passes, resp, feed, idx, processed_count, skipped_count,
              pending, txDeleted, stmts, events, outcome, result, failure, preCatalog,
              written, run, lastCommitted, observed>>

\* the order path and the mappers share no state with the sync engine
orderVars == <<call, sent, reply>>

vars == <<syncVars, orderVars, mapped>>

\* op, arg, result: the call and what it returned; failed: it returned from
\* its except branch; asOf: the catalog as of the last commit when it ran
NoObservation == [op |-> "none", arg |-> "", result |-> {}, failed |-> FALSE, asOf |-> {}]

NoCall == [op |-> "none"]
NoReply == [kind |-> "none"]
NotMapped == [op |-> "none"]

OrderInit ==
  /\ call = NoCall
  /\ sent = <<>>
  /\ reply = NoReply

SyncInit(catalogs) ==
  /\ catalog \in catalogs
  /\ nextId = 2
  /\ pc = [t \in Threads |-> "idle"]
  /\ passes = 0
  /\ resp = [t \in Threads |-> "none"]
  /\ feed = [t \in Threads |-> <<>>]
  /\ idx = [t \in Threads |-> 1]
  /\ processed_count = [t \in Threads |-> 0]
  /\ skipped_count = [t \in Threads |-> 0]
  /\ pending = [t \in Threads |-> <<>>]
  /\ txDeleted = [t \in Threads |-> {}]
  /\ stmts = [t \in Threads |-> <<>>]
  /\ events = [t \in Threads |-> <<>>]
  /\ outcome = [t \in Threads |-> "none"]
  /\ result = [t \in Threads |-> NoResult]
  /\ failure = [t \in Threads |-> "none"]
  /\ preCatalog = [t \in Threads |-> catalog]
  /\ written = {}
  /\ run = [t \in Threads |-> NoRun]
  /\ lastCommitted = catalog
  /\ observed = NoObservation

Init ==
  /\ SyncInit(InitCatalogs)
  /\ OrderInit
  /\ mapped = NotMapped

\* ------------------------------------------------------- session helpers
\* rows a new statement of any session sees: committed rows only
Committed == catalog

\* a rollback that discards nothing
Rollback_mut(t) == UNCHANGED <<txDeleted, pending>>

\* db_session.rollback(): the uncommitted DELETE and the pending objects go
Rollback(t) ==
  /\ txDeleted' = [txDeleted EXCEPT ![t] = {}]
  /\ pending' = [pending EXCEPT ![t] = <<>>]

\* get_contract_count(): db_session.query(SymToken).count(), and 0 when the
\* query raises (the except branch)
get_contract_count == { Cardinality(Committed), 0 }

CanStart(t, limit) ==
  /\ pc[t] \in {"idle", "done", "crashed"}
  /\ passes < limit

\* entry of master_contract_download: a new pass on thread t
BeginPass(t) ==
  /\ passes' = passes + 1
  /\ preCatalog' = [preCatalog EXCEPT ![t] = catalog]
  /\ idx' = [idx EXCEPT ![t] = 1]
  /\ processed_count' = [processed_count EXCEPT ![t] = 0]
  /\ skipped_count' = [skipped_count EXCEPT ![t] = 0]
  /\ result' = [result EXCEPT ![t] = NoResult]

\* the pass ends in the failure branch of master_contract_download
\* (download_master_contract returned False): emit, raise, emit, re-raise
EndFailed(t, ev, why) ==
  /\ events' = [events EXCEPT ![t] = RaisedInTry(ev, FailedMsg)]
  /\ outcome' = [outcome EXCEPT ![t] = "raised"]
  /\ failure' = [failure EXCEPT ![t] = why]
  /\ pc' = [pc EXCEPT ![t] = "done"]

\* ---------------------------------------------------------------- actions
\* get_latest_auth_token_by_broker('alpaca') returned nothing
MCD_NoToken(t, limit) ==
  /\ CanStart(t, limit)
  /\ BeginPass(t)
  /\ run' = [run EXCEPT ![t] = NoRun]
  /\ events' = [events EXCEPT ![t] = RaisedInTry(<<>>, NoTokenMsg)]
  /\ outcome' = [outcome EXCEPT ![t] = "raised"]
  /\ failure' = [failure EXCEPT ![t] = "no_token"]
  /\ pc' = [pc EXCEPT ![t] = "done"]
  /\ resp' = [resp EXCEPT ![t] = "none"]
  /\ feed' = [feed EXCEPT ![t] = <<>>]
  /\ stmts' = [stmts EXCEPT ![t] = <<>>]
  /\ UNCHANGED <<catalog, nextId, pending, txDeleted, written, lastCommitted, observed>>
  /\ UNCHANGED <<orderVars, mapped>>

\* BROKER_API_SECRET is not set: download_master_contract returns False
DMC_NoSecret(t, limit) ==
  /\ CanStart(t, limit)
  /\ BeginPass(t)
  /\ run' = [run EXCEPT ![t] = NoRun]
  /\ EndFailed(t, <<>>, "no_secret")
  /\ resp' = [resp EXCEPT ![t] = "none"]
  /\ feed' = [feed EXCEPT ![t] = <<>>]
  /\ stmts' = [stmts EXCEPT ![t] = <<>>]
  /\ UNCHANGED <<catalog, nextId, pending, txDeleted, written, lastCommitted, observed>>
  /\ UNCHANGED <<orderVars, mapped>>

\* client.get or response.raise_for_status raised: caught, returns False
DMC_TransportError(t, limit) ==
  /\ CanStart(t, limit)
  /\ BeginPass(t)
  /\ run' = [run EXCEPT ![t] = NoRun]
  /\ \E r \in {"transport_error", "http_error"} :
       resp' = [resp EXCEPT ![t] = r]
  /\ EndFailed(t, <<>>, "transport")
  /\ feed' = [feed EXCEPT ![t] = <<>>]
  /\ stmts' = [stmts EXCEPT ![t] = <<>>]
  /\ UNCHANGED <<catalog, nextId, pending, txDeleted, written, lastCommitted, observed>>
  /\ UNCHANGED <<orderVars, mapped>>

\* the asset feed answered with assets_data = f
DMC_Fetch(t, limit, feeds) ==
  /\ CanStart(t, limit)
  /\ BeginPass(t)
  /\ \E f \in feeds :
       /\ feed' = [feed EXCEPT ![t] = f]
       /\ run' = [run EXCEPT ![t] = [ok |-> FALSE, count |-> 0,
                                     repeat |-> run[t].ok /\ f = feed[t],
                                     prevCount |-> run[t].count]]
       /\ IF Falsy(f)
            THEN EndFailed(t, <<>>, "empty_fetch")
            ELSE /\ pc' = [pc EXCEPT ![t] = "process"]
                 /\ events' = [events EXCEPT ![t] = <<>>]
                 /\ outcome' = [outcome EXCEPT ![t] = "none"]
                 /\ failure' = [failure EXCEPT ![t] = "none"]
  /\ resp' = [resp EXCEPT ![t] = "ok"]
  /\ stmts' = [stmts EXCEPT ![t] = <<>>]
  /\ UNCHANGED <<catalog, nextId, pending, txDeleted, written, lastCommitted, observed>>
  /\ UNCHANGED <<orderVars, mapped>>

\* process_master_contract up to the loop: the guard, then the DELETE of the
\* broker's partition inside the session's transaction
PMC_Delete(t) ==
  /\ pc[t] = "process"
  /\ IF Falsy(feed[t])
       THEN /\ Rollback(t)
            /\ stmts' = [stmts EXCEPT ![t] = Append(@, "rollback")]
            /\ EndFailed(t, events[t], "process_error")
            /\ UNCHANGED <<catalog, lastCommitted>>
       ELSE LET matched == { r \in Committed : ManagedVenue(r.brexchange) } IN
            /\ IF autocommit
                 THEN /\ catalog' = catalog \ matched
                      /\ UNCHANGED txDeleted
                 ELSE /\ txDeleted' = [txDeleted EXCEPT ![t] = { r.id : r \in matched }]
                      /\ UNCHANGED catalog
            /\ stmts' = [stmts EXCEPT ![t] = Append(@, "delete")]
            /\ pc' = [pc EXCEPT ![t] = "loop"]
            /\ UNCHANGED <<pending, events, outcome, failure, lastCommitted>>
  /\ UNCHANGED <<nextId, passes, resp, feed, idx, processed_count, skipped_count,
                 result, preCatalog, written, run, observed>>
  /\ UNCHANGED <<orderVars, mapped>>

\* one iteration of `for asset in assets_data`
PMC_Loop(t) ==
  /\ pc[t] = "loop"
  /\ idx[t] <= Len(feed[t])
  /\ LET asset == feed[t][idx[t]] IN
       IF Skipped(asset)
         THEN /\ skipped_count' = [skipped_count EXCEPT ![t] = @ + 1]
              /\ UNCHANGED <<pending, processed_count, stmts>>
         ELSE /\ pending' = [pending EXCEPT ![t] = Append(@, symbol_entry(asset))]
              /\ processed_count' = [processed_count EXCEPT ![t] = @ + 1]
              /\ stmts' = [stmts EXCEPT ![t] = Append(@, "add")]
              /\ UNCHANGED skipped_count
  /\ idx' = [idx EXCEPT ![t] = @ + 1]
  /\ UNCHANGED <<catalog, nextId, pc, passes, resp, feed, txDeleted, events, outcome,
                 result, failure, preCatalog, written, run, lastCommitted, observed>>
  /\ UNCHANGED <<orderVars, mapped>>

\* after the loop, processed_count == 0: ValueError, rollback, re-raise;
\* download_master_contract catches it and returns False
PMC_NoTradable(t) ==
  /\ pc[t] = "loop"
  /\ idx[t] > Len(feed[t])
  /\ NothingProcessed(processed_count[t])
  /\ Rollback(t)
  /\ stmts' = [stmts EXCEPT ![t] = Append(@, "rollback")]
  /\ EndFailed(t, events[t], "empty_filter")
  /\ UNCHANGED <<catalog, nextId, passes, resp, feed, idx, processed_count, skipped_count,
                 result, preCatalog, written, run, lastCommitted, observed>>
  /\ UNCHANGED <<orderVars, mapped>>

\* db_session.commit(): the pending objects are flushed and the transaction,
\* DELETE and INSERTs together, becomes visible in one step
PMC_Commit(t) ==
  /\ pc[t] = "loop"
  /\ idx[t] > Len(feed[t])
  /\ ~NothingProcessed(processed_count[t])
  /\ LET new == WithIds(pending[t], nextId) IN
       /\ catalog' = { r \in catalog : r.id \notin txDeleted[t] } \cup new
       /\ written' = written \cup { r.id : r \in new }
       /\ nextId' = nextId + Len(pending[t])
  /\ lastCommitted' = catalog'
  /\ txDeleted' = [txDeleted EXCEPT ![t] = {}]
  /\ pending' = [pending EXCEPT ![t] = <<>>]
  /\ stmts' = [stmts EXCEPT ![t] = Append(@, "commit")]
  /\ pc' = [pc EXCEPT ![t] = "stored"]
  /\ UNCHANGED <<passes, resp, feed, idx, processed_count, skipped_count, events, outcome,
                 result, failure, preCatalog, run, observed>>
  /\ UNCHANGED <<orderVars, mapped>>

\* db_session.commit() raised: rollback, re-raise, returns False
PMC_CommitFails(t) ==
  /\ pc[t] = "loop"
  /\ idx[t] > Len(feed[t])
  /\ ~NothingProcessed(processed_count[t])
  /\ Rollback(t)
  /\ stmts' = [stmts EXCEPT ![t] = Append(Append(@, "commit_failed"), "rollback")]
  /\ EndFailed(t, events[t], "commit_failed")
  /\ UNCHANGED <<catalog, nextId, passes, resp, feed, idx, processed_count, skipped_count,
                 result, preCatalog, written, run, lastCommitted, observed>>
  /\ UNCHANGED <<orderVars, mapped>>

\* download_master_contract after process_master_contract returned:
\* stored_count = get_contract_count()
DMC_Verify(t) ==
  /\ pc[t] = "stored"
  /\ \E stored_count \in get_contract_count :
       IF stored_count = 0
         THEN EndFailed(t, events[t], "verify_failed")
         ELSE /\ pc' = [pc EXCEPT ![t] = "downloaded"]
              /\ UNCHANGED <<events, outcome, failure>>
  /\ UNCHANGED <<catalog, nextId, passes, resp, feed, idx, processed_count, skipped_count,
                 pending, txDeleted, stmts, result, preCatalog, written, run,
                 lastCommitted, observed>>
  /\ UNCHANGED <<orderVars, mapped>>

\* master_contract_download with success = True: contract_count is re-read
MCD_Verify(t) ==
  /\ pc[t] = "downloaded"
  /\ \E contract_count \in get_contract_count :
       IF StoredSomething(contract_count)
         THEN /\ events' = [events EXCEPT ![t] = EmitSuccess(@, SuccessMsg(contract_count))]
              /\ result' = [result EXCEPT ![t] =
                              [status |-> "success", message |-> SuccessMsg(contract_count)]]
              /\ outcome' = [outcome EXCEPT ![t] = "returned"]
              /\ run' = [run EXCEPT ![t].ok = TRUE, ![t].count = contract_count]
              /\ UNCHANGED failure
         ELSE /\ events' = [events EXCEPT ![t] = RaisedInTry(@, NothingStoredMsg)]
              /\ outcome' = [outcome EXCEPT ![t] = "raised"]
              /\ failure' = [failure EXCEPT ![t] = "nothing_stored"]
              /\ UNCHANGED <<result, run>>
  /\ pc' = [pc EXCEPT ![t] = "done"]
  /\ UNCHANGED <<catalog, nextId, passes, resp, feed, idx, processed_count, skipped_count,
                 pending, txDeleted, stmts, preCatalog, written, lastCommitted, observed>>
  /\ UNCHANGED <<orderVars, mapped>>

\* the process is interrupted between the DELETE and the commit: the
\* connection drops, the store discards the open transaction and the
\* locals of the call are lost
Crash(t) ==
  /\ pc[t] = "loop"
  /\ Rollback(t)
  /\ pc' = [pc EXCEPT ![t] = "crashed"]
  /\ outcome' = [outcome EXCEPT ![t] = "crashed"]
  /\ run' = [run EXCEPT ![t] = NoRun]
  /\ feed' = [feed EXCEPT ![t] = <<>>]
  /\ idx' = [idx EXCEPT ![t] = 1]
  /\ processed_count' = [processed_count EXCEPT ![t] = 0]
  /\ skipped_count' = [skipped_count EXCEPT ![t] = 0]
  /\ UNCHANGED <<catalog, nextId, passes, resp, stmts, events, result, failure,
                 preCatalog, written, lastCommitted, observed>>
  /\ UNCHANGED <<orderVars, mapped>>

\* ------------------------------------------------- one caller at a time
Next ==
  \/ MCD_NoToken(MainThread, MaxPasses)
  \/ DMC_NoSecret(MainThread, MaxPasses)
  \/ DMC_TransportError(MainThread, MaxPasses)
  \/ DMC_Fetch(MainThread, MaxPasses, Feeds)
  \/ PMC_Delete(MainThread)
  \/ PMC_Loop(MainThread)
  \/ PMC_NoTradable(MainThread)
  \/ PMC_Commit(MainThread)
  \/ PMC_CommitFails(MainThread)
  \/ DMC_Verify(MainThread)
  \/ MCD_Verify(MainThread)
  \/ Crash(MainThread)

Spec == Init /\ [][Next]_vars

\* ------------------------------ one caller, a feed of every exchange code
NextVenue ==
  \/ MCD_NoToken(MainThread, MaxVenuePasses)
  \/ DMC_NoSecret(MainThread, MaxVenuePasses)
  \/ DMC_TransportError(MainThread, MaxVenuePasses)
  \/ DMC_Fetch(MainThread, MaxVenuePasses, VenueFeeds)
  \/ PMC_Delete(MainThread)
  \/ PMC_Loop(MainThread)
  \/ PMC_NoTradable(MainThread)
  \/ PMC_Commit(MainThread)
  \/ PMC_CommitFails(MainThread)
  \/ DMC_Verify(MainThread)
  \/ MCD_Verify(MainThread)
  \/ Crash(MainThread)

SpecVenue == Init /\ [][NextVenue]_vars

\* --------------------------------------------------------------- readers
\* a sync pass is between its fetch and its return on some thread
SyncInFlight == \E t \in Threads : pc[t] \in {"process", "loop", "stored", "downloaded"}

ReaderFrame ==
  UNCHANGED <<catalog, nextId, pc, passes, resp, feed, idx, processed_count, skipped_count,
              pending, txDeleted, stmts, events, outcome, result, failure, preCatalog,
              written, run, lastCommitted, orderVars, mapped>>

\* get_symbol_info(symbol) on a thread of its own, exchange left at 'NASDAQ'
Reader_get_symbol_info ==
  /\ observed.op = "none"
  /\ SyncInFlight
  /\ \E symbol \in LookupSymbols :
       LET hits == symbol_info_matches(Committed, symbol, "NASDAQ") IN
         \/ /\ hits = {}
            /\ observed' = [op |-> "get_symbol_info", arg |-> symbol, result |-> {},
                            failed |-> FALSE, asOf |-> lastCommitted]
         \/ \E r \in hits :
              observed' = [op |-> "get_symbol_info", arg |-> symbol,
                           result |-> {symbol_info(r)}, failed |-> FALSE,
                           asOf |-> lastCommitted]
         \/ observed' = [op |-> "get_symbol_info", arg |-> symbol, result |-> {},
                         failed |-> TRUE, asOf |-> lastCommitted]
  /\ ReaderFrame

\* search_symbols(query) on a thread of its own
Reader_search_symbols ==
  /\ observed.op = "none"
  /\ SyncInFlight
  /\ \E query \in Queries, failed \in BOOLEAN :
       observed' = [op |-> "search_symbols", arg |-> query,
                    result |-> IF failed THEN <<>> ELSE search_symbols(Committed, query),
                    failed |-> failed, asOf |-> lastCommitted]
  /\ ReaderFrame

\* get_contract_count() on a thread of its own
Reader_get_contract_count ==
  /\ observed.op = "none"
  /\ SyncInFlight
  /\ \E failed \in BOOLEAN :
       observed' = [op |-> "get_contract_count", arg |-> "",
                    result |-> IF failed THEN 0 ELSE Cardinality(Committed),
                    failed |-> failed, asOf |-> lastCommitted]
  /\ ReaderFrame

\* the reader's call has returned to its caller
Reader_Return ==
  /\ observed.op # "none"
  /\ observed' = NoObservation
  /\ ReaderFrame

\* ---------------------------------------------- passes on two threads
NextConc ==
  \E t \in Threads :
    \/ DMC_Fetch(t, MaxConcPasses, ConcFeeds)
    \/ PMC_Delete(t)
    \/ PMC_Loop(t)
    \/ PMC_NoTradable(t)
    \/ PMC_Commit(t)
    \/ PMC_CommitFails(t)
    \/ DMC_Verify(t)
    \/ MCD_Verify(t)
    \/ Crash(t)

SpecConc == Init /\ [][NextConc]_vars

\* ------------------------------- one syncing thread next to the readers
NextRead ==
  \/ DMC_Fetch(MainThread, MaxConcPasses, ConcFeeds)
  \/ PMC_Delete(MainThread)
  \/ PMC_Loop(MainThread)
  \/ PMC_NoTradable(MainThread)
  \/ PMC_Commit(MainThread)
  \/ PMC_CommitFails(MainThread)
  \/ DMC_Verify(MainThread)
  \/ MCD_Verify(MainThread)
  \/ Crash(MainThread)
  \/ Reader_get_symbol_info
  \/ Reader_search_symbols
  \/ Reader_get_contract_count
  \/ Reader_Return

SpecRead == Init /\ [][NextRead]_vars

\* ------------------------------------------------------------ order path
\* the order service calls place_order_api(data, auth)
PlaceOrder ==
  /\ call.op = "none"
  /\ \E data \in OrderRequests, net \in Network :
       LET r == place_order_api(data, net) IN
         /\ call' = [op |-> "place_order_api", data |-> data, net |-> net]
         /\ sent' = r.sent
         /\ reply' = r.reply
  /\ UNCHANGED <<syncVars, mapped>>

\* the order service calls modify_order(data, auth)
ModifyOrder ==
  /\ call.op = "none"
  /\ \E data \in ModifyRequests, net \in Network :
       LET r == modify_order(data, net) IN
         /\ call' = [op |-> "modify_order", data |-> data, net |-> net]
         /\ sent' = r.sent
         /\ reply' = r.reply
  /\ UNCHANGED <<syncVars, mapped>>

\* transform_data(data) called on its own, as test_data_transformation does
TransformData ==
  /\ call.op = "none"
  /\ \E data \in OrderRequests :
       /\ call' = [op |-> "transform_data", data |-> data, net |-> "none"]
       /\ reply' = Outcome(transform_data(data))
  /\ sent' = <<>>
  /\ UNCHANGED <<syncVars, mapped>>

\* transform_modify_order_data(data) called on its own
TransformModify ==
  /\ call.op = "none"
  /\ \E data \in ModifyRequests :
       /\ call' = [op |-> "transform_modify_order_data", data |-> data, net |-> "none"]
       /\ reply' = Outcome(transform_modify_order_data(data))
  /\ sent' = <<>>
  /\ UNCHANGED <<syncVars, mapped>>

\* the caller has taken the reply
OrderReturn ==
  /\ call.op # "none"
  /\ call' = NoCall
  /\ sent' = <<>>
  /\ reply' = NoReply
  /\ UNCHANGED <<syncVars, mapped>>

InitOrder ==
  /\ SyncInit({{}})
  /\ OrderInit
  /\ mapped = NotMapped

NextOrder ==
  \/ PlaceOrder
  \/ ModifyOrder
  \/ TransformData
  \/ TransformModify
  \/ OrderReturn

SpecOrder == InitOrder /\ [][NextOrder]_vars

\* -------------------------------------------------------------- funds path
\* the funds service calls get_margin_data(auth)
GetMarginData ==
  /\ call.op = "none"
  /\ \E account_data \in BrokerAccounts, fetch \in AccountFetch :
       /\ call' = [op |-> "get_margin_data", data |-> account_data, net |-> fetch]
       /\ reply' = Outcome(get_margin_data(account_data, fetch))
  /\ sent' = <<>>
  /\ UNCHANGED <<syncVars, mapped>>

NextFunds ==
  \/ GetMarginData
  \/ OrderReturn

SpecFunds == InitOrder /\ [][NextFunds]_vars

\* ----------------------------------------------------------- mapper calls
\* what a mapper call leaves with its caller: the exception or the value
Value(v) == IF IsRaise(v) THEN Raised(v) ELSE Returned(v)

\* [map_single_order(order) for order in order_data]
map_order_list(order_data) ==
  LET each == [k \in 1..Len(order_data) |-> map_single_order(order_data[k])]
      first == FirstRaise([k \in 1..Len(order_data) |-> each[k].raised])
  IN IF IsRaise(first) THEN Raised(first)
     ELSE Returned([k \in 1..Len(order_data) |-> each[k].body])

MapOrderStatus ==
  /\ mapped.op = "none"
  /\ \E alpaca_status \in StatusInputs :
       mapped' = [op |-> "map_order_status", arg |-> alpaca_status,
                  out |-> Value(map_order_status(alpaca_status))]
  /\ UNCHANGED <<syncVars, orderVars>>

\* map_order_data on one broker order
MapOrderData ==
  /\ mapped.op = "none"
  /\ \E order \in BrokerOrders :
       mapped' = [op |-> "map_order_data", arg |-> order, out |-> map_single_order(order)]
  /\ UNCHANGED <<syncVars, orderVars>>

\* map_order_data on a list of broker orders
MapOrderList ==
  /\ mapped.op = "none"
  /\ \E order_data \in SeqsUpTo(BatchOrders, MaxBatch) :
       mapped' = [op |-> "map_order_data[]", arg |-> order_data,
                  out |-> map_order_list(order_data)]
  /\ UNCHANGED <<syncVars, orderVars>>

\* map_trade_data on one broker fill
MapTradeData ==
  /\ mapped.op = "none"
  /\ \E trade \in BrokerTrades :
       mapped' = [op |-> "map_trade_data", arg |-> trade, out |-> map_single_trade(trade)]
  /\ UNCHANGED <<syncVars, orderVars>>

\* map_trade_data on a list of broker fills
MapTradeList ==
  /\ mapped.op = "none"
  /\ \E trade_data \in SeqsUpTo(BatchTrades, MaxBatch) :
       mapped' = [op |-> "map_trade_data[]", arg |-> trade_data,
                  out |-> map_trade_list(trade_data)]
  /\ UNCHANGED <<syncVars, orderVars>>

TransformTradebookData ==
  /\ mapped.op = "none"
  /\ \E raw_trades \in SeqsUpTo(BatchTrades, MaxBatch) :
       mapped' = [op |-> "transform_tradebook_data", arg |-> raw_trades,
                  out |-> transform_tradebook_data(raw_trades)]
  /\ UNCHANGED <<syncVars, orderVars>>

\* map_position_data on one broker position
MapPositionData ==
  /\ mapped.op = "none"
  /\ \E position \in BrokerPositions :
       mapped' = [op |-> "map_position_data", arg |-> position,
                  out |-> Returned(map_single_position(position))]
  /\ UNCHANGED <<syncVars, orderVars>>

TransformPositionsData ==
  /\ mapped.op = "none"
  /\ \E raw_positions \in SeqsUpTo(BatchPositions, MaxBatch) :
       mapped' = [op |-> "transform_positions_data", arg |-> raw_positions,
                  out |-> Returned(transform_positions_data(raw_positions))]
  /\ UNCHANGED <<syncVars, orderVars>>

MapPortfolioData ==
  /\ mapped.op = "none"
  /\ \E positions_data \in SeqsUpTo(BatchPositions, MaxBatch) :
       mapped' = [op |-> "map_portfolio_data", arg |-> positions_data,
                  out |-> Returned(map_portfolio_data(positions_data))]
  /\ UNCHANGED <<syncVars, orderVars>>

\* the caller has taken the mapped value
MapReturn ==
  /\ mapped.op # "none"
  /\ mapped' = NotMapped
  /\ UNCHANGED <<syncVars, orderVars>>

InitMap ==
  /\ SyncInit({{}})
  /\ OrderInit
  /\ mapped = NotMapped

NextMap ==
  \/ MapOrderStatus
  \/ MapOrderData
  \/ MapOrderList
  \/ MapTradeData
  \/ MapTradeList
  \/ TransformTradebookData
  \/ MapPositionData
  \/ TransformPositionsData
  \/ MapPortfolioData
  \/ MapReturn

SpecMap == InitMap /\ [][NextMap]_vars

\* ------------------------------------------------ vocabulary of the claims
BrokerVenues == {"NASDAQ", "NYSE", "AMEX"}

Partition(rows) == { r \in rows : r.brexchange \in BrokerVenues }

\* an asset the sync is meant to store: tradable = true and a symbol
Storable(a) ==
  /\ "tradable" \in DOMAIN a /\ a.tradable = TRUE
  /\ "symbol" \in DOMAIN a /\ a.symbol # ""

\* the rows the filter and the transform yield for a whole feed, in order
RECURSIVE TransformFeed(_)
TransformFeed(f) ==
  IF f = <<>> THEN <<>>
  ELSE (IF Storable(Head(f)) THEN <<symbol_entry(Head(f))>> ELSE <<>>)
         \o TransformFeed(Tail(f))

\* a row without its primary key
Content(r) ==
  [symbol |-> r.symbol, brsymbol |-> r.brsymbol, name |-> r.name, exchange |-> r.exchange,
   brexchange |-> r.brexchange, token |-> r.token, expiry |-> r.expiry, strike |-> r.strike,
   lotsize |-> r.lotsize, instrumenttype |-> r.instrumenttype, tick_size |-> r.tick_size]

HasDuplicatePair(rows) ==
  \E r1, r2 \in rows : r1 # r2 /\ r1.symbol = r2.symbol /\ r1.exchange = r2.exchange

Finished(t) == pc[t] = "done"

HasEvent(t, status) == \E k \in 1..Len(events[t]) : events[t][k].status = status

\* ------------------------------------------------------------------ claims
\* C1: two sync passes in succession on the same upstream asset list leave
\* the same stored row count after the second as after the first, and no two
\* stored rows with the same (symbol, exchange).
C1_SyncIdempotent ==
  \A t \in Threads :
    (Finished(t) /\ outcome[t] = "returned" /\ run[t].repeat)
      => /\ run[t].count = run[t].prevCount
         /\ ~HasDuplicatePair(catalog)

\* C2: when the asset feed returns an empty list the pass issues no DELETE
\* and no INSERT, leaves the catalog as it was and ends by raising.
C2_EmptyFeedNoMutation ==
  \A t \in Threads :
    (Finished(t) /\ resp[t] = "ok" /\ feed[t] = <<>>)
      => /\ catalog = preCatalog[t]
         /\ stmts[t] = <<>>
         /\ txDeleted[t] = {} /\ pending[t] = <<>>
         /\ outcome[t] = "raised"

C2_Witness ==
  /\ Finished(MainThread) /\ resp[MainThread] = "ok" /\ feed[MainThread] = <<>>
  /\ Partition(catalog) # {}
  /\ outcome[MainThread] = "raised"

\* C3: when the feed is non-empty and no asset survives the filter, the pass
\* aborts without committing: every row the catalog held before the pass,
\* the partition already marked for deletion included, is still there, no
\* uncommitted change is left in the session, and the pass raises.
C3_EmptyFilterRollsBack ==
  \A t \in Threads :
    (Finished(t) /\ resp[t] = "ok" /\ feed[t] # <<>>
       /\ \A k \in 1..Len(feed[t]) : ~Storable(feed[t][k]))
      => /\ catalog = preCatalog[t]
         /\ txDeleted[t] = {} /\ pending[t] = <<>>
         /\ outcome[t] = "raised"
         /\ HasEvent(t, "error")

C3_Witness ==
  /\ Finished(MainThread) /\ resp[MainThread] = "ok" /\ feed[MainThread] # <<>>
  /\ \A k \in 1..Len(feed[MainThread]) : ~Storable(feed[MainThread][k])
  /\ Partition(preCatalog[MainThread]) # {}
  /\ \E k \in 1..Len(stmts[MainThread]) : stmts[MainThread][k] = "delete"
  /\ catalog = preCatalog[MainThread]

\* C4: the committed catalog changes only by a step that removes the whole
\* broker partition and adds the complete new row set of the pass; a pass
\* that fails or is interrupted between the DELETE and the commit changes
\* nothing.
C4_AtomicReplace ==
  [][ \/ catalog' = catalog
      \/ /\ TransformFeed(feed[MainThread]) # <<>>
         /\ catalog' = (catalog \ Partition(catalog))
                         \cup WithIds(TransformFeed(feed[MainThread]), nextId) ]_vars

C4_Witness ==
  /\ pc[MainThread] = "crashed"
  /\ \E k \in 1..Len(stmts[MainThread]) : stmts[MainThread][k] = "delete"
  /\ \E k \in 1..Len(stmts[MainThread]) : stmts[MainThread][k] = "add"
  /\ Partition(catalog) # {}
  /\ Partition(catalog) \subseteq { r \in catalog : r.id \in written }

\* C5: after every successful pass the rows in the catalog that a sync pass
\* of this broker wrote are exactly the transformed storable assets of the
\* latest feed.
C5_WholesaleReplace ==
  \A t \in Threads :
    (Finished(t) /\ outcome[t] = "returned")
      => { Content(r) : r \in { x \in catalog : x.id \in written } }
           = { TransformFeed(feed[t])[k] : k \in 1..Len(TransformFeed(feed[t])) }

\* C6: no two rows of the catalog have the same (symbol, exchange).
C6_UniqueSymbolExchange ==
  \A r1, r2 \in catalog :
    (r1.symbol = r2.symbol /\ r1.exchange = r2.exchange) => r1 = r2

\* C7: every row whose broker exchange is not NASDAQ, NYSE or AMEX that was
\* in the catalog when a pass started is in it, unchanged, at every later
\* point of the pass, whether the pass succeeds or fails.
C7_OtherVenuesUntouched ==
  \A t \in Threads :
    \A r \in preCatalog[t] : r.brexchange \notin BrokerVenues => r \in catalog

C7_Witness ==
  /\ Finished(MainThread) /\ outcome[MainThread] = "returned"
  /\ OtherBrokerRow \in preCatalog[MainThread] /\ OtherBrokerRow \in catalog
  /\ \E r \in preCatalog[MainThread] : r.brexchange \in BrokerVenues /\ r \notin catalog

\* the catalog a pass on feed f leaves when it runs alone on rows
AfterPass(rows, f) ==
  IF TransformFeed(f) = <<>> THEN rows
  ELSE (rows \ Partition(rows))
         \cup WithIds(TransformFeed(f), 1 + Cardinality(rows) + nextId)

SameContent(a, b) ==
  \A c \in { Content(r) : r \in a \cup b } :
    Cardinality({ r \in a : Content(r) = c }) = Cardinality({ r \in b : Content(r) = c })

InTransaction(t) == pc[t] = "loop"

\* C8: of the passes started concurrently for the broker at most one is
\* inside its delete+insert transaction at any time, and once two passes
\* have both finished the catalog is what running them one after the other
\* leaves.
C8_SerializedPasses ==
  /\ \A t1, t2 \in Threads : t1 # t2 => ~(InTransaction(t1) /\ InTransaction(t2))
  /\ (passes = 2 /\ \A t \in Threads : Finished(t) /\ outcome[t] = "returned")
       => \E ta, tb \in Threads :
            /\ ta # tb
            /\ SameContent(catalog,
                           AfterPass(AfterPass(preCatalog[ta], feed[ta]), feed[tb]))

\* C9: what a reader running next to a sync pass gets from get_symbol_info,
\* search_symbols or get_contract_count is the answer on a completely
\* committed catalog (the one before the pass's commit or the one after it),
\* never on a catalog with the partition deleted and the new rows missing.
C9_ReaderSeesCommitted ==
  observed.op # "none" /\ ~observed.failed =>
    CASE observed.op = "get_contract_count" ->
           observed.result = Cardinality(observed.asOf)
      [] observed.op = "search_symbols" ->
           observed.result = search_symbols(observed.asOf, observed.arg)
      [] observed.op = "get_symbol_info" ->
           \/ /\ observed.result = {}
              /\ ~\E r \in observed.asOf : r.symbol = observed.arg /\ r.exchange = "NASDAQ"
           \/ \E r \in observed.asOf :
                /\ r.symbol = observed.arg /\ r.exchange = "NASDAQ"
                /\ observed.result = {symbol_info(r)}

C9_Witness ==
  /\ observed.op = "get_symbol_info" /\ ~observed.failed
  /\ observed.result # {}
  /\ \E t \in Threads : InTransaction(t) /\ txDeleted[t] # {} /\ pending[t] # <<>>

\* C10: a pass that has terminated has emitted an event: 'success' when it
\* returned the result payload, 'error' in every failure case; every failure
\* is raised, and a pass that raised emitted no 'success'.
C10_EveryPassEmits ==
  \A t \in Threads :
    Finished(t) =>
      /\ events[t] # <<>>
      /\ outcome[t] \in {"returned", "raised"}
      /\ outcome[t] = "returned"
           => /\ result[t].status = "success"
              /\ events[t][Len(events[t])] = result[t]
              /\ failure[t] = "none"
      /\ outcome[t] = "raised"
           => /\ HasEvent(t, "error")
              /\ ~HasEvent(t, "success")
              /\ result[t] = NoResult
      /\ failure[t] # "none" => outcome[t] = "raised"

C10_Witness ==
  /\ Finished(MainThread) /\ outcome[MainThread] = "raised"
  /\ failure[MainThread] = "verify_failed"
  /\ HasEvent(MainThread, "error")
  /\ catalog # preCatalog[MainThread]

\* the statement was issued on the session by the current pass of thread t
Issued(t, stmt) == \E k \in 1..Len(stmts[t]) : stmts[t][k] = stmt

\* the rows the pass of thread t was meant to store are all in rows
StoredBy(t, rows) ==
  /\ TransformFeed(feed[t]) # <<>>
  /\ \A k \in 1..Len(TransformFeed(feed[t])) :
       \E r \in rows : r.id \in written /\ Content(r) = TransformFeed(feed[t])[k]

\* C11: a pass reports success only when the count it re-reads after the
\* commit is above zero and the rows it was meant to store are in the
\* catalog at that moment, rows of other passes or other brokers not
\* counting for it; a pass whose post-commit count is zero ends as a
\* failure, with an error event and a raised error and no success event,
\* although its commit went through.
C11_SuccessNeedsStoredRows ==
  [][ \A t \in Threads :
        (pc[t] \in {"stored", "downloaded"} /\ pc'[t] = "done") =>
          /\ outcome'[t] = "returned"
               => /\ Issued(t, "commit")
                  /\ run'[t].count > 0
                  /\ StoredBy(t, catalog')
          /\ outcome'[t] # "returned"
               => /\ failure'[t] \in {"verify_failed", "nothing_stored"}
                  /\ outcome'[t] = "raised"
                  /\ \E k \in 1..Len(events'[t]) : events'[t][k].status = "error"
                  /\ ~\E k \in 1..Len(events'[t]) : events'[t][k].status = "success" ]_vars

\* the exchanges the Order Transform supports
SupportedExchanges == {"NASDAQ", "NYSE", "AMEX"}

Keys(d) == DOMAIN d

\* C12: a new-order request whose exchange is not NASDAQ, NYSE or AMEX is
\* rejected by place_order_api with an error and no request is sent to the
\* broker.
C12_UnsupportedExchangeRejected ==
  (/\ call.op = "place_order_api"
   /\ "exchange" \in Keys(call.data)
   /\ Upper(call.data.exchange.s) \notin SupportedExchanges)
    => /\ sent = <<>>
       /\ reply.kind = "error"

\* C13: one invocation of place_order_api issues at most one POST and one
\* invocation of modify_order at most one PATCH, also when the transport
\* fails or the broker answers non-2xx; the failure is what the call returns.
C13_NoRetryOfOrderCalls ==
  /\ call.op = "place_order_api"
       => /\ Len(sent) <= 1
          /\ \A k \in 1..Len(sent) : sent[k].method = "POST"
  /\ call.op = "modify_order"
       => /\ Len(sent) <= 1
          /\ \A k \in 1..Len(sent) : sent[k].method = "PATCH"
  /\ (call.op \in {"place_order_api", "modify_order"} /\ sent # <<>> /\ call.net # "ok")
       => reply.kind = "error"

C13_Witness ==
  /\ call.op = "place_order_api"
  /\ call.net = "http_error"
  /\ Len(sent) = 1 /\ sent[1].method = "POST"
  /\ reply.kind = "error"

\* C14: the body transform_data produces has limit_price exactly when the
\* pricetype, in any letter case, is LIMIT or STOP_LIMIT, and stop_price
\* exactly when it is STOP or STOP_LIMIT; symbol, side, type, qty and
\* time_in_force are always there.
C14_PriceKeysByType ==
  (call.op = "transform_data" /\ reply.kind = "dict") =>
    LET type == Upper(call.data.pricetype.s) IN
      /\ "limit_price" \in Keys(reply.body) <=> type \in {"LIMIT", "STOP_LIMIT"}
      /\ "stop_price" \in Keys(reply.body) <=> type \in {"STOP", "STOP_LIMIT"}
      /\ {"symbol", "side", "type", "qty", "time_in_force"} \subseteq Keys(reply.body)

C14_Witness ==
  /\ call.op = "transform_data" /\ reply.kind = "dict"
  /\ call.data.pricetype.s = "Stop_Limit"
  /\ {"limit_price", "stop_price"} \subseteq Keys(reply.body)
  /\ reply.body.limit_price = Str("100.0")

\* C15: the body transform_modify_order_data produces has qty exactly when
\* the request has quantity, limit_price exactly when it has price,
\* stop_price exactly when it has trigger_price, time_in_force exactly when
\* it has validity, and no other key.
C15_ModifyIsPartialUpdate ==
  (call.op = "transform_modify_order_data" /\ reply.kind = "dict") =>
    Keys(reply.body) =
      (IF "quantity" \in Keys(call.data) THEN {"qty"} ELSE {})
        \cup (IF "price" \in Keys(call.data) THEN {"limit_price"} ELSE {})
        \cup (IF "trigger_price" \in Keys(call.data) THEN {"stop_price"} ELSE {})
        \cup (IF "validity" \in Keys(call.data) THEN {"time_in_force"} ELSE {})

C15_Witness ==
  /\ call.op = "transform_modify_order_data" /\ reply.kind = "dict"
  /\ Keys(call.data) = {"orderid", "symbol"}
  /\ Keys(reply.body) = {}

\* the canonical status the taxonomy table lists for a broker status
Taxonomy(w) ==
  CASE w \in {"new", "pending_new", "pending_cancel", "pending_replace"} -> "PENDING"
    [] w \in {"partially_filled", "accepted", "accepted_for_bidding", "calculated"} -> "OPEN"
    [] w \in {"filled"} -> "COMPLETE"
    [] w \in {"done_for_day", "canceled", "expired", "stopped", "suspended"} -> "CANCELLED"
    [] w \in {"replaced"} -> "MODIFIED"
    [] w \in {"rejected"} -> "REJECTED"

TaxonomyStatuses ==
  {"new", "pending_new", "pending_cancel", "pending_replace", "partially_filled", "accepted",
   "accepted_for_bidding", "calculated", "filled", "done_for_day", "canceled", "expired",
   "stopped", "suspended", "replaced", "rejected"}

CanonicalStatuses == {"PENDING", "OPEN", "COMPLETE", "CANCELLED", "MODIFIED", "REJECTED"}

\* the status string is a status of the table in some letter case
InTaxonomy(text) == \E w \in TaxonomyStatuses : Lower(text) = w

MapperReturned == ~IsRaise(mapped.out.raised)

\* C16: for each of the 16 broker statuses of the table, written in lower
\* case, in upper case or capitalized, map_order_status returns the
\* canonical value the table lists; for a string that is not in the table
\* it returns the string upper-cased.
C16_StatusTaxonomy ==
  (mapped.op = "map_order_status" /\ mapped.arg.ty = "str") =>
    /\ MapperReturned
    /\ \A w \in TaxonomyStatuses :
         mapped.arg.s \in {w, Upper(w), Capitalized(w)}
           => mapped.out.body = Str(Taxonomy(w))
    /\ ~InTaxonomy(mapped.arg.s) => mapped.out.body = Str(Upper(mapped.arg.s))

C16_Witness ==
  /\ mapped.op = "map_order_status"
  /\ mapped.arg = Str("Accepted_for_bidding")
  /\ mapped.out.body = Str("OPEN")

\* the broker field is missing, None or the empty string
Unusable(record, field) ==
  \/ field \notin DOMAIN record
  \/ record[field] \in {None, Str("")}

\* the broker field holds a string that is not a number
NonNumeric(record, field) ==
  /\ field \in DOMAIN record
  /\ record[field].ty = "str" /\ record[field].s # ""
  /\ IsRaise(ParseFloat(record[field].s))

\* C17: map_order_data, map_trade_data, map_position_data and
\* map_order_status never raise, whatever a consumed field of the broker
\* record holds (missing, None, empty, fractional or non-numeric string);
\* and a field of a broker order that is missing, None, empty or (for a
\* number) non-numeric comes out as its typed default: 0 for qty and
\* filled_qty, 0.0 for the prices, the empty string for the text fields.
C17_MappersNeverRaise ==
  /\ mapped.op \in {"map_order_status", "map_order_data", "map_order_data[]",
                    "map_trade_data", "map_position_data"}
       => MapperReturned
  /\ (mapped.op = "map_order_data" /\ MapperReturned) =>
       LET order == mapped.arg
           canonical == mapped.out.body
       IN /\ \A f \in {"qty", "filled_qty"} :
               (Unusable(order, f) \/ NonNumeric(order, f))
                 => canonical[IF f = "qty" THEN "quantity" ELSE "filled_quantity"] = Integer(0)
          /\ (Unusable(order, "limit_price") \/ NonNumeric(order, "limit_price"))
               => canonical.price = Float(0)
          /\ (Unusable(order, "filled_avg_price") \/ NonNumeric(order, "filled_avg_price"))
               => canonical.average_price = Float(0)
          /\ (Unusable(order, "stop_price") \/ NonNumeric(order, "stop_price"))
               => canonical.trigger_price = Float(0)
          /\ Unusable(order, "id") => canonical.orderid = Str("")
          /\ Unusable(order, "symbol") => canonical.symbol = Str("")
          /\ Unusable(order, "side") => canonical.action = Str("")
          /\ Unusable(order, "status") => canonical.status = Str("")
          /\ Unusable(order, "type") => canonical.order_type = Str("")
          /\ Unusable(order, "created_at") => canonical.timestamp = Str("")

\* C18: every trade map_single_trade returns has quantity >= 0 and
\* average_price >= 0.
C18_TradeNonNegative ==
  (mapped.op = "map_trade_data" /\ MapperReturned) =>
    /\ mapped.out.body.quantity.n >= 0
    /\ mapped.out.body.average_price.n >= 0

\* C19: every order map_order_data returns has a status among PENDING,
\* OPEN, COMPLETE, CANCELLED, MODIFIED, REJECTED.
C19_StatusInEnum ==
  /\ (mapped.op = "map_order_data" /\ MapperReturned)
       => mapped.out.body.status.s \in CanonicalStatuses
  /\ (mapped.op = "map_order_data[]" /\ MapperReturned)
       => \A k \in 1..Len(mapped.out.body) :
            mapped.out.body[k].status.s \in CanonicalStatuses

\* the status of the canonical order against the status of the broker order
StatusFollowsTable(order, canonical) ==
  LET given == Get(order, "status", Str("")).s IN
    /\ InTaxonomy(given) => canonical.status.s \in CanonicalStatuses
    /\ ~InTaxonomy(given) => canonical.status.s = Upper(given)

\* C19 as amended: the status of every order map_order_data returns is one
\* of the six canonical values when the broker status is, in some letter
\* case, one of the 16 statuses of the table, and is the broker status
\* upper-cased (the empty string for a missing one) otherwise.
C19_StatusInEnumWhenInTable ==
  /\ (mapped.op = "map_order_data" /\ MapperReturned)
       => StatusFollowsTable(mapped.arg, mapped.out.body)
  /\ (mapped.op = "map_order_data[]" /\ MapperReturned)
       => \A k \in 1..Len(mapped.out.body) :
            StatusFollowsTable(mapped.arg[k], mapped.out.body[k])

C19_Witness ==
  /\ mapped.op = "map_order_data[]" /\ MapperReturned
  /\ Len(mapped.arg) = 2
  /\ mapped.arg[1].status = Str("filled") /\ mapped.out.body[1].status = Str("COMPLETE")
  /\ mapped.arg[2].status = Str("held") /\ mapped.out.body[2].status = Str("HELD")

\* C20: no position transform_positions_data returns and no item
\* map_portfolio_data returns has quantity 0.
C20_NoZeroQuantityPosition ==
  (mapped.op \in {"transform_positions_data", "map_portfolio_data"} /\ MapperReturned) =>
    \A k \in 1..Len(mapped.out.body) : mapped.out.body[k].quantity.n # 0

\* the five fields of the margin snapshot
MarginFields ==
  { "availablecash", "collateral", "utiliseddebits", "m2munrealized", "m2mrealized" }

\* the account field holds something that is not a number
NotANumber(account_data, field) ==
  /\ field \in DOMAIN account_data
  /\ account_data[field] \in {None, Str(""), Str("abc")}

\* C21: get_margin_data never propagates an error; what it returns has
\* exactly the five string fields availablecash, collateral, utiliseddebits,
\* m2munrealized, m2mrealized; and when the account fetch fails or one of
\* cash, buying_power, equity, last_equity, initial_margin is not a number,
\* all five are "0.00".
C21_MarginAlwaysWellFormed ==
  call.op = "get_margin_data" =>
    /\ reply.kind = "dict"
    /\ DOMAIN reply.body = MarginFields
    /\ \A f \in MarginFields : reply.body[f].ty = "str"
    /\ ( \/ call.net # "ok"
         \/ \E f \in {"cash", "buying_power", "equity", "last_equity", "initial_margin"} :
              NotANumber(call.data, f) )
         => \A f \in MarginFields : reply.body[f] = Str("0.00")

C21_Witness ==
  /\ call.op = "get_margin_data"
  /\ call.net = "ok"
  /\ "equity" \in DOMAIN call.data /\ call.data.equity = None
  /\ reply.kind = "dict"
  /\ reply.body.availablecash = Str("0.00")

\* the number a broker field stands for, 0 when it is not a number; prices
\* in hundredths
AmountOf(v) ==
  CASE v.ty = "str" -> IF IsRaise(ParseFloat(v.s)) THEN 0 ELSE ParseFloat(v.s).n
    [] v.ty = "int" -> v.n * 100
    [] v.ty = "float" -> v.n
    [] OTHER -> 0

\* the first strictly positive whole number among the fields, 0 when none
RECURSIVE FirstPositiveWhole(_, _)
FirstPositiveWhole(trade, fields) ==
  IF fields = <<>> THEN 0
  ELSE IF Head(fields) \in DOMAIN trade /\ Trunc(AmountOf(trade[Head(fields)])) > 0
    THEN Trunc(AmountOf(trade[Head(fields)]))
    ELSE FirstPositiveWhole(trade, Tail(fields))

\* map_trade_data was applied to one fill and returned
TradeMapped == mapped.op = "map_trade_data" /\ ~IsRaise(mapped.out.raised)

\* C22: the quantity of a mapped trade is the value of the first of
\* filled_qty, qty, quantity that is present and parses, truncated toward
\* zero, to a strictly positive integer; when no candidate does (absent,
\* zero, negative or unparsable) the quantity is 0.
C22_QuantityFirstPositive ==
  TradeMapped =>
    mapped.out.body.quantity =
      Integer(FirstPositiveWhole(mapped.arg, <<"filled_qty", "qty", "quantity">>))

\* the first strictly positive amount among the fields, 0 when none
RECURSIVE FirstPositive(_, _)
FirstPositive(trade, fields) ==
  IF fields = <<>> THEN 0
  ELSE IF Head(fields) \in DOMAIN trade /\ AmountOf(trade[Head(fields)]) > 0
    THEN AmountOf(trade[Head(fields)])
    ELSE FirstPositive(trade, Tail(fields))

\* C23: the average_price of a mapped trade is the first strictly positive
\* value among filled_avg_price, avg_fill_price, price, limit_price; when
\* none of the four is strictly positive (a negative one included) and the
\* quantity is > 0, it is the first strictly positive value among
\* stop_price, trail_price; stop_price and trail_price are used in no other
\* case.
C23_PriceFallbackCascade ==
  TradeMapped =>
    LET primary == FirstPositive(mapped.arg, <<"filled_avg_price", "avg_fill_price", "price",
                                               "limit_price">>)
        fallback == FirstPositive(mapped.arg, <<"stop_price", "trail_price">>)
        quantity == mapped.out.body.quantity.n
        average_price == mapped.out.body.average_price
    IN /\ primary > 0 => average_price = Float(primary)
       /\ (primary = 0 /\ quantity > 0 /\ fallback > 0) => average_price = Float(fallback)
       /\ (primary = 0 /\ quantity <= 0 /\ fallback > 0) => average_price # Float(fallback)

\* C24: the trade_value of a mapped trade is quantity x average_price of
\* the same returned record when both are > 0, and 0.0 in every other case.
C24_TradeValueIsProduct ==
  TradeMapped =>
    LET trade == mapped.out.body IN
      trade.trade_value =
        IF trade.quantity.n > 0 /\ trade.average_price.n > 0
          THEN Float(trade.quantity.n * trade.average_price.n)
          ELSE Float(0)

\* a fill of 10 at 150.25 is worth 1502.50
C24_Witness ==
  /\ TradeMapped
  /\ mapped.out.body.quantity = Integer(10)
  /\ mapped.out.body.average_price = Float(15025)
  /\ mapped.out.body.trade_value = Float(150250)

\* upper-cased text of a field, the empty string when the field is absent
UpperOf(trade, field) == IF field \in DOMAIN trade THEN Upper(trade[field].s) ELSE ""

\* C25: the action of a mapped trade is the upper-cased side when side is
\* non-empty; when side is empty or absent it is the upper-cased
\* transaction_type if that is non-empty, and otherwise the upper-cased
\* action field.
C25_SideFallback ==
  (TradeMapped /\ \A f \in {"side", "transaction_type", "action"} :
                    f \in DOMAIN mapped.arg => mapped.arg[f].ty = "str") =>
    mapped.out.body.action =
      Str(IF UpperOf(mapped.arg, "side") # "" THEN UpperOf(mapped.arg, "side")
          ELSE IF UpperOf(mapped.arg, "transaction_type") # ""
            THEN UpperOf(mapped.arg, "transaction_type")
            ELSE UpperOf(mapped.arg, "action"))

\* the field of a mapped trade holds something
NonEmpty(v) == v \notin {None, Str("")}

\* the positions of a batch whose mapped trade has a symbol and an action
Kept(trade_data) ==
  { k \in 1..Len(trade_data) :
      \A trade \in {map_single_trade(trade_data[k]).body} :
        NonEmpty(trade.symbol) /\ NonEmpty(trade.action) }

\* the k-th position of a set of positions, in increasing order
Nth(positions, k) == CHOOSE i \in positions : Cardinality({ j \in positions : j < i }) = k - 1

\* C26: a batch of trades mapped by map_trade_data or
\* transform_tradebook_data comes out as exactly the mapped records that
\* have a non-empty symbol and a non-empty action, in input order; every
\* trade of the output has both; an empty batch gives an empty list and no
\* error.
C26_BatchKeepsSymbolAndAction ==
  mapped.op \in {"map_trade_data[]", "transform_tradebook_data"} =>
    /\ mapped.arg = <<>> => (~IsRaise(mapped.out.raised) /\ mapped.out.body = <<>>)
    /\ ~IsRaise(mapped.out.raised) =>
         \A kept \in {Kept(mapped.arg)} :
           /\ Len(mapped.out.body) = Cardinality(kept)
           /\ \A k \in 1..Len(mapped.out.body) :
                \A trade \in {map_single_trade(mapped.arg[Nth(kept, k)]).body} :
                  /\ NonEmpty(mapped.out.body[k].symbol)
                  /\ NonEmpty(mapped.out.body[k].action)
                  /\ \A f \in DOMAIN mapped.out.body[k] : mapped.out.body[k][f] = trade[f]

\* a batch of two whose first fill has no symbol: only the second comes out
C26_Witness ==
  /\ mapped.op = "transform_tradebook_data"
  /\ Len(mapped.arg) = 2
  /\ "symbol" \notin DOMAIN mapped.arg[1]
  /\ ~IsRaise(mapped.out.raised)
  /\ Len(mapped.out.body) = 1
  /\ mapped.out.body[1].symbol = Str("MSFT")

\* the canonical exchange the mapping table gives a broker exchange code
CanonicalVenue(code) ==
  CASE code \in {"NASDAQ", "BATS", "IEX"} -> "NASDAQ"
    [] code \in {"NYSE", "ARCA"} -> "NYSE"
    [] code = "AMEX" -> "AMEX"
    [] OTHER -> "NASDAQ"

\* rows a sync pass has built or inserted: pending in a session, or stored
SyncRows ==
  UNION { { pending[t][k] : k \in 1..Len(pending[t]) } : t \in Threads }
    \cup { Content(r) : r \in { x \in catalog : x.id \in written } }

\* C27: every row a sync pass inserts has the canonical exchange the table
\* NASDAQ->NASDAQ, NYSE->NYSE, AMEX->AMEX, ARCA->NYSE, BATS->NASDAQ,
\* IEX->NASDAQ gives its broker exchange, NASDAQ for any other value and for
\* a missing one; so it is one of NASDAQ, NYSE, AMEX.
C27_ExchangeMapped ==
  /\ \A r \in SyncRows :
       /\ r.exchange = CanonicalVenue(r.brexchange)
       /\ r.exchange \in {"NASDAQ", "NYSE", "AMEX"}
  /\ \A t \in Threads :
       (pc[t] = "loop" /\ idx[t] > 1 /\ pending[t] # <<>>) =>
         LET asset == feed[t][idx[t] - 1] IN
           pending[t][Len(pending[t])].exchange =
             IF "exchange" \in DOMAIN asset THEN CanonicalVenue(asset.exchange) ELSE "NASDAQ"

\* a row from an asset on ARCA is stored with exchange NYSE
C27_Witness ==
  \E r \in catalog :
    /\ r.id \in written
    /\ r.brexchange = "ARCA"
    /\ r.exchange = "NYSE"

\* C28: a sync pass that has ended has emitted exactly one outcome event,
\* on the success path and on each failure path (no auth token, failed
\* download, no stored rows).
C28_OneEventPerPass ==
  \A t \in Threads : Finished(t) => Len(events[t]) = 1

\* transform_data was called on its own and returned an order body
BodyProduced == call.op = "transform_data" /\ reply.kind = "dict"

\* C29: no order body is produced without the price its type needs: a body
\* of type 'stop' or 'stop_limit' contains stop_price, and a body of type
\* 'limit' or 'stop_limit' contains limit_price, whatever pricetype was
\* mapped to that type (SL and SL-M included).
C29_BodyHasPriceOfItsType ==
  BodyProduced =>
    /\ reply.body.type.s \in {"stop", "stop_limit"} => "stop_price" \in DOMAIN reply.body
    /\ reply.body.type.s \in {"limit", "stop_limit"} => "limit_price" \in DOMAIN reply.body

\* the pass of thread t ended before its transaction started, or at a
\* commit that failed
FailedWithoutCommit(t) ==
  /\ Finished(t)
  /\ failure[t] \in {"no_token", "no_secret", "transport", "empty_fetch", "commit_failed"}

\* C30: a sync pass that fails before its transaction starts (no auth token,
\* no API secret, transport error or non-2xx answer of the asset feed) or
\* whose commit fails leaves the catalog as it was before the pass, and its
\* session holds no uncommitted delete or insert.
C30_FailedPassLeavesCatalog ==
  FailedWithoutCommit(MainThread) =>
    /\ catalog = preCatalog[MainThread]
    /\ txDeleted[MainThread] = {}
    /\ pending[MainThread] = <<>>

\* the commit of a pass failed while rows of the pass before it were stored
C30_Witness ==
  /\ Finished(MainThread)
  /\ failure[MainThread] = "commit_failed"
  /\ \E r \in catalog : r.id \in written
  /\ catalog = preCatalog[MainThread]

====
